---------------------------- MODULE Spec2Model ----------------------------
(***************************************************************************)
(* Credential pool (TokenManager) and request dispatch (the retry loops of *)
(* the chat, messages, generateContent and images endpoints) of the        *)
(* Antigravity proxy.                                                      *)
(*                                                                         *)
(* Time is in whole seconds.  A quota score is an integer number of        *)
(* ten-thousandths (average_quota is rounded to four decimals), so 0.05 is *)
(* 500 and 1.0 is 10000.  The email of an identity stands for the identity *)
(* (account_id is derived from the email, one to one).                     *)
(*                                                                         *)
(* The server runs its handlers as asyncio tasks on one event loop: a task *)
(* runs without interruption up to its next suspension point (a network    *)
(* call, a wait for the refresh lock).  A pc value in UrgentPcs is a point *)
(* inside such a run: while a task is there no other action is enabled.    *)
(***************************************************************************)
EXTENDS Integers, Sequences, FiniteSets, TLC

\* ------------------------------------------------------------------ bounds
MaxTime == 60
MaxRequests == 1
MaxCalls == 1
MaxPoolCalls == 2
MaxSelectCalls == 3
MaxScored == 4
MaxImports == 1
MaxStoreCalls == 2
MaxRefreshCalls == 1
MaxLockCalls == 2
MaxQuotaCalls == 2
MaxRotated == 3           \* identities in a pool of the rotation specification
MaxLines == 3        \* lines the upstream sends on one stream
MaxParts == 2        \* parts of one candidate
MaxDepth == 2        \* schemas nested inside a schema

\* ------------------------------------------------------- program constants
StickyWindow == 60
RefreshMargin == 300
MinRetries == 5
QuotaFloor == 500
NoQuota == -1

Ids == <<"a", "b", "c", "d", "e", "f">>
IdSet == {Ids[i] : i \in 1..Len(Ids)}

NoTier == "NONE"
\* 'pro' in tier.lower() or 'ultra' in tier.lower(), on the tier ids above
IsProTier(tier) == tier \in {"g1-pro-tier", "g1-ultra-tier"}

NoProject == "NONE"
FallbackProject == "bamboo-precept-lgxtn"
RealProject == "project-from-upstream"

\* ----------------------------------------------------- sequences of tokens
HasId(toks, id) == \E i \in 1..Len(toks) : toks[i].account_id = id
IndexOf(toks, id) == CHOOSE i \in 1..Len(toks) : toks[i].account_id = id
TokenOf(toks, id) == toks[IndexOf(toks, id)]
PoolIds(toks) == {toks[i].account_id : i \in 1..Len(toks)}

\* self._tokens[id] = tok : an existing key keeps its place, a new key is
\* appended (dict insertion order)
PutToken(toks, tok) ==
    IF HasId(toks, tok.account_id)
    THEN [toks EXCEPT ![IndexOf(toks, tok.account_id)] = tok]
    ELSE Append(toks, tok)

\* ------------------------------------------------------ get_token, step 1
\* a sticky check that does not look at the quota group
StickyHitAnyGroup(toks, lu, t, quota_group, force_rotate) ==
    /\ ~force_rotate
    /\ lu # <<>>
    /\ t - lu[2] < StickyWindow
    /\ HasId(toks, lu[1])

\* a window of half the length
StickyHitHalfWindow(toks, lu, t, quota_group, force_rotate) ==
    /\ ~force_rotate
    /\ quota_group # "image_gen"
    /\ lu # <<>>
    /\ 2 * (t - lu[2]) < StickyWindow
    /\ HasId(toks, lu[1])

\* the 60-second sticky window
StickyHit(toks, lu, t, quota_group, force_rotate) ==
    /\ ~force_rotate
    /\ quota_group # "image_gen"
    /\ lu # <<>>
    /\ t - lu[2] < StickyWindow
    /\ HasId(toks, lu[1])

\* ------------------------------------------------------ get_token, step 2
HasQuota(tok) == tok.average_quota # NoQuota /\ tok.average_quota > QuotaFloor

TokensWithQuota(toks) == SelectSeq(toks, HasQuota)

\* list.sort(key=average_quota, reverse=True): descending and stable
RECURSIVE InsertDesc(_, _)
InsertDesc(x, s) ==
    IF s = <<>> THEN <<x>>
    ELSE IF Head(s).average_quota >= x.average_quota
         THEN <<Head(s)>> \o InsertDesc(x, Tail(s))
         ELSE <<x>> \o s

RECURSIVE SortDesc(_)
SortDesc(s) ==
    IF s = <<>> THEN <<>>
    ELSE InsertDesc(s[Len(s)], SortDesc(SubSeq(s, 1, Len(s) - 1)))

\* Scores top for which the double product top * 0.9 is above the exact
\* value, so that q >= top * 0.9 is false for q = 0.9 top exactly (of the
\* scores 0.1, 0.2, ..., 1.0: 0.1, 0.2, 0.4 and 0.8).
InexactTops == {1000, 2000, 4000, 8000}

\* (t.average_quota or 0) >= top_quota * 0.9, in double arithmetic
WithinBand(q, top) ==
    IF 10 * q = 9 * top THEN top \notin InexactTops ELSE 10 * q > 9 * top

FirstThree(s) == SubSeq(s, 1, IF Len(s) < 3 THEN Len(s) ELSE 3)

\* the first three without the band
SimilarWithoutBand(sorted) == FirstThree(sorted)

Similar(sorted) ==
    LET top_quota == sorted[1].average_quota
        InBand(x) == WithinBand(x.average_quota, top_quota)
    IN  SelectSeq(FirstThree(sorted), InBand)

ProTokens(toks) ==
    LET pro(x) == x.subscription_tier # NoTier /\ IsProTier(x.subscription_tier)
    IN  SelectSeq(toks, pro)

\* The weighted pick for quota_group gemini / claude.
\* Result: the selected account_id and the new round-robin counter.
NormalSelect(toks, idx) ==
    LET sorted == SortDesc(TokensWithQuota(toks))
    IN  IF sorted # <<>>
        THEN IF Len(sorted) >= 3
             THEN LET similar == Similar(sorted)
                  IN  IF Len(similar) > 1
                      THEN [id  |-> similar[(idx % Len(similar)) + 1].account_id,
                            idx |-> idx + 1]
                      ELSE [id |-> sorted[1].account_id, idx |-> idx]
             ELSE [id |-> sorted[1].account_id, idx |-> idx]
        ELSE [id |-> toks[(idx % Len(toks)) + 1].account_id, idx |-> idx + 1]

\* The pick for quota_group image_gen.
ImageSelect(toks, idx, force_rotate) ==
    LET pro_tokens == ProTokens(toks)
        pro_with_quota == SortDesc(TokensWithQuota(pro_tokens))
    IN  IF force_rotate
        THEN [id |-> toks[(idx % Len(toks)) + 1].account_id, idx |-> idx + 1]
        ELSE IF pro_tokens # <<>>
             THEN IF pro_with_quota # <<>>
                  THEN [id |-> pro_with_quota[1].account_id, idx |-> idx]
                  ELSE [id  |-> pro_tokens[(idx % Len(pro_tokens)) + 1].account_id,
                        idx |-> idx + 1]
             ELSE [id |-> toks[(idx % Len(toks)) + 1].account_id, idx |-> idx + 1]

\* a selection whose sticky hit starts the window again
SelectTokenExtending(toks, idx, lu, t, quota_group, force_rotate) ==
    IF StickyHit(toks, lu, t, quota_group, force_rotate)
    THEN [id |-> lu[1], idx |-> idx, lu |-> <<lu[1], t>>, how |-> "sticky"]
    ELSE IF quota_group = "image_gen"
         THEN LET r == ImageSelect(toks, idx, force_rotate)
              IN  [id |-> r.id, idx |-> r.idx, lu |-> lu, how |-> "image"]
         ELSE LET r == NormalSelect(toks, idx)
              IN  [id |-> r.id, idx |-> r.idx, lu |-> <<r.id, t>>, how |-> "weighted"]

\* Steps 1 and 2 of get_token on a non-empty pool: the selected identity,
\* the counter and the sticky pair after the selection, and how it was made.
SelectToken(toks, idx, lu, t, quota_group, force_rotate) ==
    IF StickyHit(toks, lu, t, quota_group, force_rotate)
    THEN [id |-> lu[1], idx |-> idx, lu |-> lu, how |-> "sticky"]
    ELSE IF quota_group = "image_gen"
         THEN LET r == ImageSelect(toks, idx, force_rotate)
              IN  [id |-> r.id, idx |-> r.idx, lu |-> lu, how |-> "image"]
         ELSE LET r == NormalSelect(toks, idx)
              IN  [id |-> r.id, idx |-> r.idx, lu |-> <<r.id, t>>, how |-> "weighted"]


\* ------------------------------------------------------------- exceptions
NoError == [kind |-> "none", status |-> 0, mentions |-> {}]
\* ValueError: the empty pool, a response body that is no JSON
\* (json.JSONDecodeError), a token response that fails validation
ValueError == [kind |-> "ValueError", status |-> 0, mentions |-> {}]
\* httpx.HTTPStatusError of raise_for_status(); its text names the status
HTTPStatusError(s) == [kind |-> "HTTPStatusError", status |-> s, mentions |-> {s}]
\* any other exception (a transport error, "Token refresh failed: <body>");
\* m: the status numbers its text happens to contain
OtherError(m) == [kind |-> "Exception", status |-> 0, mentions |-> m]

\* the retried statuses, with 400 among them
RotateStatusesAnd400 == {400, 429, 403, 500, 502, 503, 504}

RotateStatuses == {429, 403, 500, 502, 503, 504}
\* the statuses the model lets the upstream answer with
UpstreamStatuses == {400, 403, 429, 503}
UpstreamErrors ==
    {HTTPStatusError(s) : s \in UpstreamStatuses} \cup {ValueError, OtherError({})}
\* what refresh_access_token can raise
RefreshErrors == {OtherError({}), ValueError}
\* expires_in of a refresh response
ExpiresIn == {RefreshMargin, 12 * RefreshMargin}
\* and of one whose token lives shorter than the margin (TokenResponse takes
\* every int)
ShortExpiresIn == RefreshMargin \div 10

\* ------------------------------------------------------------------ state
Tasks == {"req", "g1", "sched"}
Endpoints == {"chat", "messages", "generateContent", "images"}
Unbound == "UNBOUND"
NoId == "none"

VARIABLES
    tokens,          \* TokenManager._tokens: the ProxyToken objects, in dict order
    current_index,   \* TokenManager._current_index
    last_used,       \* TokenManager._last_used: <<>> (None) or <<account_id, time>>
    refresh_lock,    \* TokenManager._refresh_lock: "free" or the task holding it
    waiters,         \* the tasks queued on _refresh_lock, first in first out
    db,              \* the Account/Token rows of the database, in select order
    now,             \* time.time()
    held,            \* per id: the ProxyToken object that load_accounts replaced
                     \* in the pool while a task still holds it
    pc,              \* per task: where it is
    quota_group,     \* per task: get_token's quota_group
    force_rotate,    \* per task: get_token's force_rotate
    selected,        \* per task: account_id of selected_token / token
    attached,        \* per task: its token object is the pool's entry (else held)
    refresh_now,     \* per task: _refresh_token's local now
    check_time,      \* per task: get_token's local now (step 3)
    error,           \* per task: the exception being raised to the caller
    how,             \* per task: how step 1/2 selected ("sticky", "weighted", "image")
    refreshed,       \* per task: expires_in of the refresh this call made (0: none)
    endpoint,        \* request: which handler runs
    stream,          \* request: the request's stream flag
    attempt,         \* request: the loop variable (-1: before the loop)
    account_count,   \* request: len(token_manager._tokens) as read by the handler
    email,           \* request: the handler's local email
    tried_accounts,  \* request: the handler's local set
    last_error,      \* request: the handler's local last_error
    status,          \* request: HTTP status of the answer (0: none yet)
    n_calls,         \* request: the number of upstream calls it made
    usage,           \* request: its usage records (log_usage), in order
    stream_error,    \* request: the failure of the stream call, once it was made
    outcome,         \* request: how the handler ended ("none": it has not)
    rotations_only,  \* request: every attempt so far was an upstream call that
                     \* failed with a status of RotateStatuses
    started,         \* number of requests started so far
    other_calls,     \* number of get_token calls the other callers made so far
    imports,         \* number of rows imported so far
    last_plain,      \* <<>> or <<identity, time of call>> of the last get_token
                     \* call without force_rotate for gemini / claude that returned
    short_refreshed, \* the identities a refresh response with expires_in of
                     \* RefreshMargin or less was written to
    sc_queue         \* scheduler: the tokens refresh_all_expiring_tokens has yet
                     \* to look at, as <<account_id, attached>>

poolVars == <<tokens, current_index, last_used, refresh_lock, waiters, db, held>>
taskVars == <<pc, quota_group, force_rotate, selected, attached, refresh_now,
              check_time, error, how, refreshed>>
reqVars == <<endpoint, stream, attempt, account_count, email, tried_accounts,
             last_error, status, n_calls, usage, stream_error, outcome,
             rotations_only>>
obsVars == <<started, other_calls, imports, last_plain, short_refreshed>>

\* What the checks of the refreshes remember.
VARIABLES
    overtaken,       \* the tasks inside _refresh_token for an identity that
                     \* another task has refreshed since they entered
    picked           \* the identity the last get_token of the rotation
                     \* specification returned

histVars == <<overtaken, picked>>

\* The pool lock, and the threads of the lock specification.
LockThreads == {"loop", "worker"}
VARIABLES
    lock,            \* TokenManager._lock: "free" or the thread holding it
    lk_pc,           \* where each thread is
    lk_toks,         \* the entries get_token has read for its selection
    lk_rows,         \* the accounts load_accounts still has to go through
    accesses         \* the accesses made so far: field, kind, lock held or not

lockVars == <<lock, lk_pc, lk_toks, lk_rows, accesses>>

\* The quota scheduler (main.background_quota_update).
VARIABLES
    qt_pc,           \* where update_quotas is: idle, meta, poll
    qt_queue,        \* the identities its loop still has to go through
    qt_polled,       \* the identities polled in this run of update_quotas
    qt_answer        \* the answer to its last poll

quotaVars == <<qt_pc, qt_queue, qt_polled, qt_answer>>
dispatchVars == <<poolVars, taskVars, reqVars, now, obsVars, sc_queue,
                  histVars, lockVars, quotaVars>>

\* The translators: the generators of the streaming answers.
VARIABLES
    sse_protocol,    \* the handler whose generate_stream runs ("openai", "claude")
    sse_pc,          \* where generate_stream is ("idle": not started)
    sse_lines,       \* the number of lines stream_gemini_api yielded so far
    frames,          \* the frames generate_stream yielded so far, in order
    sse_seen         \* history: the lines the upstream sent so far, in order

streamVars == <<sse_protocol, sse_pc, sse_lines, frames, sse_seen>>

\* The translators: the mappers of requests and answers, the schema cleaners.
VARIABLES
    map_pc,          \* what was translated last ("idle": nothing yet)
    openai_message,  \* the message given to transform_openai_to_gemini
    gemini_contents, \* the contents transform_openai_to_gemini made of it
    gemini_response, \* the answer given to transform_gemini_to_openai
    openai_response, \* choices[0] of what transform_gemini_to_openai returned
    cleaner,         \* the mapper whose schema cleaner ran ("openai", "claude")
    schema,          \* the schema the cleaner was given
    cleaned          \* what the cleaner made of it, and of that in turn

schemaVars == <<cleaner, schema, cleaned>>
mapperVars == <<map_pc, openai_message, gemini_contents, gemini_response,
                openai_response, schemaVars>>

\* The translators: the round trip of a tool call through the Claude mappers.
VARIABLES
    claude_pc,       \* what was translated last ("idle": nothing yet)
    tool_use,        \* the tool_use block given to transform_claude_to_gemini
    function_call,   \* the functionCall part made of it
    tool_use_back    \* the block transform_gemini_to_claude made of that part

claudeVars == <<claude_pc, tool_use, function_call, tool_use_back>>
xlatVars == <<streamVars, mapperVars, claudeVars>>
vars == <<dispatchVars, xlatVars>>

\* pc values inside a run of one task between two suspension points
UrgentPcs == {"gt_select", "gt_expiry", "rf_check", "gt_project", "gt_return",
              "gt_raised", "sc_loop"}
NoUrgent == \A t \in Tasks : pc[t] \notin UrgentPcs

Max(x, y) == IF x >= y THEN x ELSE y

\* access_token and refresh_token are strings; the model tells the empty
\* string from a token Google issued
NoCredential == ""
AccessToken == "ya29.access"
RefreshedAccessToken == "ya29.refreshed"
RefreshToken == "1//refresh"
RotatedRefreshToken == "1//rotated"

\* A ProxyToken / a Token row.
Token(id, exp, prj, tier, q) ==
    [account_id |-> id, expiry_timestamp |-> exp, project_id |-> prj,
     subscription_tier |-> tier, average_quota |-> q,
     access_token |-> AccessToken, refresh_token |-> RefreshToken]
NoToken == Token(NoId, 0, NoProject, NoTier, NoQuota)

\* the token object task t holds
Tok(t) == IF attached[t] THEN TokenOf(tokens, selected[t]) ELSE held[selected[t]]

\* the objects that stay referenced when task t lets go of its token
HeldBy(id, except) ==
    \/ \E u \in Tasks \ {except} : selected[u] = id /\ ~attached[u]
    \/ \E i \in 1..Len(sc_queue) : sc_queue[i] = <<id, FALSE>>
DropHeld(t) == [id \in IdSet |-> IF HeldBy(id, t) THEN held[id] ELSE NoToken]


\* --------------------------------------------------------------- database
\* _save_token_to_db: the row of the account, when there is one
SaveToken(rows, tok) ==
    [i \in 1..Len(rows) |->
        IF rows[i].account_id = tok.account_id
        THEN [rows[i] EXCEPT !.access_token = tok.access_token,
                             !.expiry_timestamp = tok.expiry_timestamp]
        ELSE rows[i]]

\* _save_metadata_to_db: project_id always, subscription_tier when truthy
SaveMetadata(rows, id, project_id, tier) ==
    [i \in 1..Len(rows) |->
        IF rows[i].account_id = id
        THEN [rows[i] EXCEPT !.project_id = project_id,
                             !.subscription_tier =
                                 IF tier # NoTier THEN tier ELSE @]
        ELSE rows[i]]

\* load_accounts loads the accounts with a token row whose access_token is
\* not empty (a row of the model is an account with its token row)
HasCredential(row) == row.access_token # NoCredential

\* load_accounts: every such row becomes a new ProxyToken under its id; the
\* entries of the pool are never removed
RECURSIVE LoadRows(_, _)
LoadRows(toks, rows) ==
    IF rows = <<>> THEN toks
    ELSE LoadRows(IF HasCredential(Head(rows))
                  THEN PutToken(toks, Head(rows)) ELSE toks,
                  Tail(rows))

\* the rows load_accounts makes pool entries of
Loaded(rows) == SelectSeq(rows, HasCredential)

\* --------------------------------------------------- TokenManager.get_token
Plain(t) == ~force_rotate[t] /\ quota_group[t] # "image_gen"

\* get_token up to the end of step 2
GtSelect(t) ==
    /\ pc[t] = "gt_select"
    /\ IF tokens = <<>>
       THEN /\ error' = [error EXCEPT ![t] = ValueError]
            /\ pc' = [pc EXCEPT ![t] = "gt_raised"]
            /\ UNCHANGED <<current_index, last_used, selected, attached, how>>
       ELSE LET r == SelectToken(tokens, current_index, last_used, now,
                                 quota_group[t], force_rotate[t])
            IN  /\ selected' = [selected EXCEPT ![t] = r.id]
                /\ attached' = [attached EXCEPT ![t] = TRUE]
                /\ how' = [how EXCEPT ![t] = r.how]
                /\ current_index' = r.idx
                /\ last_used' = r.lu
                /\ pc' = [pc EXCEPT ![t] = "gt_expiry"]
                /\ UNCHANGED error
    /\ UNCHANGED <<tokens, refresh_lock, waiters, db, held, quota_group,
                   force_rotate, refresh_now, check_time, refreshed, reqVars,
                   now, obsVars, sc_queue>>

\* a check that sends every token to _refresh_token
NeedsRefreshAlways(tok, t) == t >= 0

\* the check without the margin
NeedsRefreshAtExpiry(tok, t) == t >= tok.expiry_timestamp

NeedsRefresh(tok, t) == t >= tok.expiry_timestamp - RefreshMargin

\* entering _refresh_token without taking the lock
EnterWithoutLock(t) ==
    /\ pc' = [pc EXCEPT ![t] = "rf_check"]
    /\ UNCHANGED <<refresh_lock, waiters>>

\* async with self._refresh_lock: taken at once when it is free and nobody
\* waits, else the task queues
EnterRefresh(t) ==
    IF refresh_lock = "free" /\ waiters = <<>>
    THEN /\ refresh_lock' = t
         /\ pc' = [pc EXCEPT ![t] = "rf_check"]
         /\ UNCHANGED waiters
    ELSE /\ waiters' = Append(waiters, t)
         /\ pc' = [pc EXCEPT ![t] = "rf_wait"]
         /\ UNCHANGED refresh_lock

\* get_token step 3
GtExpiry(t) ==
    /\ pc[t] = "gt_expiry"
    /\ check_time' = [check_time EXCEPT ![t] = now]
    /\ IF NeedsRefresh(Tok(t), now)
       THEN EnterRefresh(t)
       ELSE /\ pc' = [pc EXCEPT ![t] = "gt_project"]
            /\ UNCHANGED <<refresh_lock, waiters>>
    /\ UNCHANGED <<tokens, current_index, last_used, db, held, quota_group,
                   force_rotate, selected, attached, refresh_now, error, how,
                   refreshed, reqVars, now, obsVars, sc_queue>>

\* where a task goes on when _refresh_token returns
AfterRefresh(t) == IF t = "sched" THEN "sc_loop" ELSE "gt_project"

\* the lock is handed to the first waiter
RfWake(t) ==
    /\ pc[t] = "rf_wait"
    /\ NoUrgent
    /\ refresh_lock = "free"
    /\ waiters # <<>> /\ Head(waiters) = t
    /\ refresh_lock' = t
    /\ waiters' = Tail(waiters)
    /\ pc' = [pc EXCEPT ![t] = "rf_check"]
    /\ UNCHANGED <<tokens, current_index, last_used, db, held, quota_group,
                   force_rotate, selected, attached, refresh_now, check_time,
                   error, how, refreshed, reqVars, now, obsVars, sc_queue>>

\* _refresh_token under the lock: the second check
RfCheck(t) ==
    /\ pc[t] = "rf_check"
    /\ refresh_now' = [refresh_now EXCEPT ![t] = now]
    /\ IF now < Tok(t).expiry_timestamp - RefreshMargin
       THEN /\ refresh_lock' = "free"
            /\ pc' = [pc EXCEPT ![t] = AfterRefresh(t)]
       ELSE /\ pc' = [pc EXCEPT ![t] = "rf_call"]
            /\ UNCHANGED refresh_lock
    /\ UNCHANGED <<tokens, current_index, last_used, waiters, db, held,
                   quota_group, force_rotate, selected, attached, check_time,
                   error, how, refreshed, reqVars, now, obsVars, sc_queue>>

\* the token object of task t becomes tok
WriteTok(t, tok) ==
    /\ tokens' = IF attached[t] THEN PutToken(tokens, tok) ELSE tokens
    /\ held' = IF attached[t] THEN held ELSE [held EXCEPT ![selected[t]] = tok]

\* The answers of the token endpoint to a refresh: with or without a
\* refresh_token of its own.  It answers 200 only when the request carries a
\* refresh token (else refresh_access_token raises, RfFail).
Missing == "<missing>"
AnswerRefreshTokens == {Missing, RotatedRefreshToken}
TokenEndpointAccepts(sent) == sent # NoCredential

\* refresh_access_token: the TokenResponse of an answer; an answer without
\* refresh_token gets the one that was sent
TokenResponse(sent, expires_in, answered) ==
    [access_token |-> RefreshedAccessToken, expires_in |-> expires_in,
     refresh_token |-> IF answered = Missing THEN sent ELSE answered]

\* a refresh that takes expires_in for the time of expiry
RefreshedFromZero(tok, new_token, t) ==
    [tok EXCEPT !.access_token = new_token.access_token,
                !.expiry_timestamp = new_token.expires_in]

\* a refresh that stores every field of the response
RefreshedWithResponseToken(tok, new_token, t) ==
    [tok EXCEPT !.access_token = new_token.access_token,
                !.expiry_timestamp = t + new_token.expires_in,
                !.refresh_token = new_token.refresh_token]

\* _refresh_token: what it writes to the token object
RefreshedToken(tok, new_token, t) ==
    [tok EXCEPT !.access_token = new_token.access_token,
                !.expiry_timestamp = t + new_token.expires_in]

\* refresh_access_token answers with expires_in
RfOk(t, expires_in) ==
    /\ pc[t] = "rf_call"
    /\ NoUrgent
    /\ TokenEndpointAccepts(Tok(t).refresh_token)
    /\ \E answered \in AnswerRefreshTokens :
           LET new_token == TokenResponse(Tok(t).refresh_token, expires_in,
                                          answered)
               tok == RefreshedToken(Tok(t), new_token, refresh_now[t])
           IN  /\ WriteTok(t, tok)
               /\ db' = SaveToken(db, tok)
    /\ refreshed' = [refreshed EXCEPT ![t] = expires_in]
    /\ short_refreshed' = IF expires_in <= RefreshMargin
                          THEN short_refreshed \cup {selected[t]}
                          ELSE short_refreshed
    /\ refresh_lock' = "free"
    /\ pc' = [pc EXCEPT ![t] = AfterRefresh(t)]
    /\ UNCHANGED <<current_index, last_used, waiters, quota_group, force_rotate,
                   selected, attached, refresh_now, check_time, error, how,
                   reqVars, now, started, other_calls, imports, last_plain,
                   sc_queue>>

\* a failure that ends refresh_all_expiring_tokens
RfFailAborts(t, e) ==
    /\ pc[t] = "rf_call"
    /\ NoUrgent
    /\ refresh_lock' = "free"
    /\ IF t = "sched"
       THEN /\ pc' = [pc EXCEPT ![t] = "idle"]
            /\ UNCHANGED error
       ELSE /\ pc' = [pc EXCEPT ![t] = "gt_raised"]
            /\ error' = [error EXCEPT ![t] = e]
    /\ UNCHANGED <<tokens, current_index, last_used, waiters, db, held,
                   quota_group, force_rotate, selected, attached, refresh_now,
                   check_time, how, refreshed, reqVars, now, obsVars, sc_queue>>

\* a failure that is swallowed after the token was marked expired
RfFailAfterWrite(t, e) ==
    /\ pc[t] = "rf_call"
    /\ NoUrgent
    /\ refresh_lock' = "free"
    /\ WriteTok(t, [Tok(t) EXCEPT !.expiry_timestamp = 0])
    /\ pc' = [pc EXCEPT ![t] = IF t = "sched" THEN "sc_loop" ELSE "gt_raised"]
    /\ UNCHANGED <<current_index, last_used, waiters, db, quota_group,
                   force_rotate, selected, attached, refresh_now, check_time,
                   error, how, refreshed, reqVars, now, obsVars, sc_queue>>

\* refresh_access_token raises e: logged and raised again by _refresh_token;
\* refresh_all_expiring_tokens logs it and goes on
RfFail(t, e) ==
    /\ pc[t] = "rf_call"
    /\ NoUrgent
    /\ refresh_lock' = "free"
    /\ IF t = "sched"
       THEN /\ pc' = [pc EXCEPT ![t] = "sc_loop"]
            /\ UNCHANGED error
       ELSE /\ pc' = [pc EXCEPT ![t] = "gt_raised"]
            /\ error' = [error EXCEPT ![t] = e]
    /\ UNCHANGED <<tokens, current_index, last_used, waiters, db, held,
                   quota_group, force_rotate, selected, attached, refresh_now,
                   check_time, how, refreshed, reqVars, now, obsVars, sc_queue>>

\* get_token step 4
GtProject(t) ==
    /\ pc[t] = "gt_project"
    /\ pc' = [pc EXCEPT ![t] =
                 IF Tok(t).project_id = NoProject THEN "md_call" ELSE "gt_return"]
    /\ UNCHANGED <<poolVars, quota_group, force_rotate, selected, attached,
                   refresh_now, check_time, error, how, refreshed, reqVars, now,
                   obsVars, sc_queue>>

\* what fetch_account_info returns: the project (None when the answer has
\* none, the fallback when the call fails) and the tier
MetadataAnswers ==
    {[project_id |-> RealProject, tier |-> "g1-pro-tier"],
     [project_id |-> NoProject, tier |-> NoTier],
     [project_id |-> FallbackProject, tier |-> NoTier]}

\* _fetch_metadata
MdDone(t, m) ==
    /\ pc[t] = "md_call"
    /\ NoUrgent
    /\ WriteTok(t, [Tok(t) EXCEPT !.project_id = m.project_id,
                                  !.subscription_tier = m.tier])
    /\ db' = SaveMetadata(db, selected[t], m.project_id, m.tier)
    /\ pc' = [pc EXCEPT ![t] = "gt_return"]
    /\ UNCHANGED <<current_index, last_used, refresh_lock, waiters, quota_group,
                   force_rotate, selected, attached, refresh_now, check_time,
                   error, how, refreshed, reqVars, now, obsVars, sc_queue>>

\* a get_token that hands out the project id as it is stored
ReturnedStored(t) == Tok(t).project_id

\* the project id get_token returns
ReturnedProject(t) ==
    IF Tok(t).project_id = NoProject THEN FallbackProject ELSE Tok(t).project_id

\* the locals of get_token / _refresh_token of task t, once it is over
EndCall(t) ==
    /\ selected' = [selected EXCEPT ![t] = NoId]
    /\ attached' = [attached EXCEPT ![t] = TRUE]
    /\ held' = DropHeld(t)
    /\ refresh_now' = [refresh_now EXCEPT ![t] = 0]
    /\ check_time' = [check_time EXCEPT ![t] = 0]
    /\ error' = [error EXCEPT ![t] = NoError]
    /\ how' = [how EXCEPT ![t] = "none"]
    /\ refreshed' = [refreshed EXCEPT ![t] = 0]

\* last_plain after get_token of task t returned
PlainAfter(t) ==
    IF Plain(t) THEN <<selected[t], check_time[t]>> ELSE last_plain


\* ------------------------------------------ other callers of get_token
\* (the get_token calls of the other requests in flight, of /api/quota)
Callers == {"g1"}
QuotaGroups == {"gemini", "claude", "image_gen"}

GStart(t, group, force, budget) ==
    /\ pc[t] = "idle"
    /\ NoUrgent
    /\ other_calls < budget
    /\ other_calls' = other_calls + 1
    /\ quota_group' = [quota_group EXCEPT ![t] = group]
    /\ force_rotate' = [force_rotate EXCEPT ![t] = force]
    /\ pc' = [pc EXCEPT ![t] = "gt_select"]
    /\ UNCHANGED <<poolVars, selected, attached, refresh_now, check_time, error,
                   how, refreshed, reqVars, now, started, imports, last_plain,
                   short_refreshed,
                   sc_queue>>

GReturn(t) ==
    /\ pc[t] = "gt_return"
    /\ t \in Callers
    /\ last_plain' = PlainAfter(t)
    /\ EndCall(t)
    /\ pc' = [pc EXCEPT ![t] = "idle"]
    /\ quota_group' = [quota_group EXCEPT ![t] = "gemini"]
    /\ force_rotate' = [force_rotate EXCEPT ![t] = FALSE]
    /\ UNCHANGED <<tokens, current_index, last_used, refresh_lock, waiters, db,
                   reqVars, now, started, other_calls, imports, short_refreshed,
                   sc_queue>>

GRaised(t) ==
    /\ pc[t] = "gt_raised"
    /\ t \in Callers
    /\ EndCall(t)
    /\ pc' = [pc EXCEPT ![t] = "idle"]
    /\ quota_group' = [quota_group EXCEPT ![t] = "gemini"]
    /\ force_rotate' = [force_rotate EXCEPT ![t] = FALSE]
    /\ UNCHANGED <<tokens, current_index, last_used, refresh_lock, waiters, db,
                   reqVars, now, obsVars, sc_queue>>

\* ------------------------------------- refresh_all_expiring_tokens
\* background_token_refresh wakes up (the model lets it wake at any time)
ScTick ==
    /\ pc["sched"] = "idle"
    /\ NoUrgent
    /\ Len(tokens) > 0
    /\ check_time' = [check_time EXCEPT !["sched"] = now]
    /\ sc_queue' = [i \in 1..Len(tokens) |-> <<tokens[i].account_id, TRUE>>]
    /\ pc' = [pc EXCEPT !["sched"] = "sc_loop"]
    /\ UNCHANGED <<poolVars, quota_group, force_rotate, selected, attached,
                   refresh_now, error, how, refreshed, reqVars, now, obsVars>>

\* one turn of its loop over list(self._tokens.values())
ScNext ==
    /\ pc["sched"] = "sc_loop"
    /\ IF sc_queue = <<>>
       THEN /\ EndCall("sched")
            /\ pc' = [pc EXCEPT !["sched"] = "idle"]
            /\ UNCHANGED <<sc_queue, refresh_lock, waiters>>
       ELSE LET id == Head(sc_queue)[1]
                att == Head(sc_queue)[2]
                tok == IF att THEN TokenOf(tokens, id) ELSE held[id]
            IN  /\ sc_queue' = Tail(sc_queue)
                /\ selected' = [selected EXCEPT !["sched"] = id]
                /\ attached' = [attached EXCEPT !["sched"] = att]
                /\ held' = [i \in IdSet |->
                               IF i = id /\ ~att THEN held[i] ELSE DropHeld("sched")[i]]
                /\ IF NeedsRefresh(tok, check_time["sched"])
                   THEN EnterRefresh("sched")
                   ELSE /\ pc' = pc
                        /\ UNCHANGED <<refresh_lock, waiters>>
                /\ UNCHANGED <<refresh_now, check_time, error, how, refreshed>>
    /\ UNCHANGED <<tokens, current_index, last_used, db, quota_group,
                   force_rotate, reqVars, now, obsVars>>

\* ------------------------------------------------ load_accounts, import
Referenced(id) ==
    \/ \E u \in Tasks : selected[u] = id /\ attached[u]
    \/ \E i \in 1..Len(sc_queue) : sc_queue[i] = <<id, TRUE>>

\* The effect of load_accounts on the pool and on the objects tasks hold,
\* for the rows `rows` of the database.
Load(rows) ==
    /\ tokens' = LoadRows(tokens, rows)
    /\ held' = [id \in IdSet |->
                   IF HasId(tokens, id) /\ HasId(Loaded(rows), id) /\ Referenced(id)
                   THEN TokenOf(tokens, id) ELSE held[id]]
    /\ attached' = [t \in Tasks |->
                       IF selected[t] # NoId /\ HasId(Loaded(rows), selected[t])
                       THEN FALSE ELSE attached[t]]
    /\ sc_queue' = [i \in 1..Len(sc_queue) |->
                       IF /\ HasId(tokens, sc_queue[i][1])
                          /\ HasId(Loaded(rows), sc_queue[i][1])
                       THEN <<sc_queue[i][1], FALSE>> ELSE sc_queue[i]]
    /\ last_plain' = IF PoolIds(tokens') = PoolIds(tokens) THEN last_plain ELSE <<>>

\* TokenManager.load_accounts (routes_quota.reload_account_pool, the task the
\* import and delete routes create).  Bound of the model: it does not run
\* while a task still holds an object an earlier load replaced.
LoadAccounts ==
    /\ NoUrgent
    /\ \A id \in IdSet : held[id] = NoToken
    /\ Load(db)
    /\ UNCHANGED <<current_index, last_used, refresh_lock, waiters, db, pc,
                   quota_group, force_rotate, selected, refresh_now, check_time,
                   error, how, refreshed, reqVars, now, started, other_calls,
                   imports, short_refreshed>>

\* routes_oauth.oauth_callback for an account the database does not hold yet
\* (the next of Ids): it adds the row and awaits load_accounts
OAuthCallback(expires_in, project_id) ==
    /\ NoUrgent
    /\ \A id \in IdSet : held[id] = NoToken
    /\ Len(db) < Len(Ids)
    /\ imports < MaxImports
    /\ imports' = imports + 1
    /\ db' = Append(db, Token(Ids[Len(db) + 1], now + expires_in, project_id,
                             NoTier, NoQuota))
    /\ Load(db')
    /\ UNCHANGED <<current_index, last_used, refresh_lock, waiters, pc,
                   quota_group, force_rotate, selected, refresh_now, check_time,
                   error, how, refreshed, reqVars, now, started, other_calls,
                   short_refreshed>>

\* routes_management.delete_account: the account and its token row are
\* deleted, then load_accounts runs (as a task of its own, which has no
\* suspension point)
WithoutId(rows, id) == SelectSeq(rows, LAMBDA r : r.account_id # id)

DeleteAccount(id) ==
    /\ NoUrgent
    /\ \A i \in IdSet : held[i] = NoToken
    /\ HasId(db, id)
    /\ db' = WithoutId(db, id)
    /\ Load(db')
    /\ UNCHANGED <<current_index, last_used, refresh_lock, waiters, pc,
                   quota_group, force_rotate, selected, refresh_now, check_time,
                   error, how, refreshed, reqVars, now, started, other_calls,
                   imports, short_refreshed>>

\* routes_import.import_single_token: the token row of an account the
\* database holds is overwritten, and the pool is left as it is; a new
\* account gets a row, and load_accounts runs
FirstFreeId(rows) ==
    Ids[CHOOSE i \in 1..Len(Ids) :
            /\ ~HasId(rows, Ids[i])
            /\ \A j \in 1..(i - 1) : HasId(rows, Ids[j])]

ImportedRow(id, access, refresh, expires_in) ==
    [Token(id, now + expires_in, RealProject, NoTier, NoQuota)
        EXCEPT !.access_token = access, !.refresh_token = refresh]

ImportToken(id, access, refresh, expires_in) ==
    /\ NoUrgent
    /\ \A i \in IdSet : held[i] = NoToken
    /\ imports < MaxImports
    /\ imports' = imports + 1
    /\ IF HasId(db, id)
       THEN /\ db' = [i \in 1..Len(db) |->
                         IF db[i].account_id = id
                         THEN [db[i] EXCEPT
                                  !.access_token = access,
                                  !.refresh_token = refresh,
                                  !.expiry_timestamp = now + expires_in,
                                  !.project_id = RealProject]
                         ELSE db[i]]
            /\ UNCHANGED <<tokens, held, attached, sc_queue, last_plain>>
       ELSE /\ id = FirstFreeId(db)
            /\ db' = Append(db, ImportedRow(id, access, refresh, expires_in))
            /\ Load(db')
    /\ UNCHANGED <<current_index, last_used, refresh_lock, waiters, pc,
                   quota_group, force_rotate, selected, refresh_now, check_time,
                   error, how, refreshed, reqVars, now, started, other_calls,
                   short_refreshed>>

\* ------------------------------------------------------------------- time
TickStep == StickyWindow \div 2

Tick(d) ==
    /\ NoUrgent
    /\ now + d <= MaxTime
    /\ now' = now + d
    /\ UNCHANGED <<poolVars, taskVars, reqVars, obsVars, sc_queue>>


\* ------------------------------------------------ the proxy endpoints
\* chat_completions (routes_openai), messages (routes_claude),
\* generate_content (routes_gemini), generate_image (routes_images)
GroupOf(ep) ==
    IF ep = "messages" THEN "claude"
    ELSE IF ep = "images" THEN "image_gen" ELSE "gemini"

\* max_retries without the pool size
fixed_retries == MinRetries

\* max_retries as a sum
summed_retries == account_count + MinRetries

max_retries == Max(account_count, MinRetries)

\* a record that names no account
UsageRecordUnnamed(e, ok, st) == [email |-> Unbound, success |-> ok, status |-> st]

\* log_usage(protocol, model, email, success, status_code, ...): the row it
\* adds to usage_log
UsageRecord(e, ok, st) == [email |-> e, success |-> ok, status |-> st]

\* The handler starts.  chat, messages and generateContent read the pool
\* size and enter the loop; images first calls get_token outside the loop.
ReqStart(ep, st) ==
    /\ pc["req"] \in {"idle", "done"}
    /\ NoUrgent
    /\ started < MaxRequests
    /\ ep = "images" => ~st
    /\ started' = started + 1
    /\ endpoint' = ep
    /\ stream' = st
    /\ attempt' = IF ep = "images" THEN -1 ELSE 0
    /\ account_count' = IF ep = "images" THEN 0 ELSE Len(tokens)
    /\ email' = Unbound
    /\ tried_accounts' = {}
    /\ last_error' = NoError
    /\ status' = 0
    /\ n_calls' = 0
    /\ usage' = <<>>
    /\ stream_error' = NoError
    /\ outcome' = "none"
    /\ rotations_only' = TRUE
    /\ quota_group' = [quota_group EXCEPT !["req"] = GroupOf(ep)]
    /\ force_rotate' = [force_rotate EXCEPT !["req"] = FALSE]
    /\ pc' = [pc EXCEPT !["req"] = "gt_select"]
    /\ UNCHANGED <<poolVars, selected, attached, refresh_now, check_time, error,
                   how, refreshed, now, other_calls, imports, last_plain,
                   short_refreshed,
                   sc_queue>>

\* get_token returned (access_token, project_id, email)
ReqGotToken ==
    /\ pc["req"] = "gt_return"
    /\ email' = selected["req"]
    /\ tried_accounts' = tried_accounts \cup {selected["req"]}
    /\ last_plain' = PlainAfter("req")
    /\ EndCall("req")
    /\ IF endpoint = "images" /\ attempt = -1
       THEN /\ account_count' = Len(tokens)
            /\ attempt' = 0
       ELSE UNCHANGED <<account_count, attempt>>
    /\ IF stream
       THEN \* log_usage(success) and return the StreamingResponse: the
            \* upstream is called when the body is iterated
            /\ usage' = Append(usage, UsageRecord(selected["req"], TRUE, 200))
            /\ status' = 200
            /\ outcome' = "success"
            /\ pc' = [pc EXCEPT !["req"] = "streaming"]
            /\ UNCHANGED n_calls
       ELSE /\ n_calls' = n_calls + 1
            /\ pc' = [pc EXCEPT !["req"] = "up_call"]
            /\ UNCHANGED <<usage, status, outcome>>
    /\ UNCHANGED <<tokens, current_index, last_used, refresh_lock, waiters, db,
                   quota_group, force_rotate, endpoint, stream, last_error,
                   stream_error, rotations_only, now, started, other_calls,
                   imports, short_refreshed, sc_queue>>

\* the status of the images endpoint on every endpoint
ExhaustedStatusOfImages(ep, e) ==
    IF 429 \in e.mentions THEN 429
    ELSE IF 403 \in e.mentions THEN 403 ELSE 502

\* HTTP status of the answer when the loop ends without a success
ExhaustedStatus(ep, e) ==
    IF ep = "images"
    THEN IF 429 \in e.mentions THEN 429
         ELSE IF 403 \in e.mentions THEN 403 ELSE 502
    ELSE 429

\* `continue` after the exception e: the next turn of the loop calls
\* get_token(force_rotate=True), or the loop is over
Continue(e) ==
    /\ last_error' = e
    /\ IF attempt + 1 < max_retries
       THEN /\ attempt' = attempt + 1
            /\ force_rotate' = [force_rotate EXCEPT !["req"] = TRUE]
            /\ pc' = [pc EXCEPT !["req"] = "gt_select"]
            /\ UNCHANGED <<status, usage, outcome>>
       ELSE /\ status' = ExhaustedStatus(endpoint, e)
            /\ outcome' = "exhausted"
            /\ usage' = IF endpoint = "chat"
                        THEN Append(usage, UsageRecord(email, FALSE, 429))
                        ELSE usage
            /\ pc' = [pc EXCEPT !["req"] = "done"]
            /\ UNCHANGED <<attempt, force_rotate>>

\* the handler raises HTTPException(st) inside the loop
Fail(st) ==
    /\ status' = st
    /\ outcome' = "raised"
    /\ pc' = [pc EXCEPT !["req"] = "done"]
    /\ UNCHANGED <<attempt, force_rotate, usage, last_error>>

\* except httpx.HTTPStatusError, for a status that is not retried
Fatal(e) ==
    /\ status' = e.status
    /\ outcome' = "raised"
    /\ last_error' = e
    /\ pc' = [pc EXCEPT !["req"] = "done"]
    /\ UNCHANGED <<attempt, force_rotate, usage>>

\* an exception leaves the handler: the framework answers with HTTP 500
Crash ==
    /\ status' = 500
    /\ outcome' = "crashed"
    /\ pc' = [pc EXCEPT !["req"] = "done"]
    /\ UNCHANGED <<attempt, force_rotate, usage>>

\* a clause that catches the status errors of the upstream instead
CaughtAsHTTPStatusError(e) == e.kind = "HTTPStatusError"

\* except ValueError
CaughtAsValueError(e) == e.kind = "ValueError"

\* get_token raised error["req"]
ReqTokenError ==
    /\ pc["req"] = "gt_raised"
    /\ LET e == error["req"]
       IN  IF endpoint = "images"
           THEN IF attempt = -1
                THEN \* only ValueError is caught around the first get_token
                     IF CaughtAsValueError(e)
                     THEN Fail(503)
                     ELSE Crash /\ UNCHANGED last_error
                ELSE Continue(e)
           ELSE IF CaughtAsValueError(e)
                THEN Fail(503)
                ELSE IF email = Unbound
                     THEN \* last_error = e, then the handler's print reads
                          \* the unbound local email
                          Crash /\ last_error' = e
                     ELSE Continue(e)
    /\ rotations_only' = FALSE
    /\ EndCall("req")
    /\ UNCHANGED <<tokens, current_index, last_used, refresh_lock, waiters, db,
                   quota_group, endpoint, stream, account_count, email,
                   tried_accounts, n_calls, stream_error, now, obsVars, sc_queue>>

\* call_gemini_api returned and the answer was transformed
ReqUpstreamOk ==
    /\ pc["req"] = "up_call"
    /\ NoUrgent
    /\ usage' = Append(usage, UsageRecord(email, TRUE, 200))
    /\ status' = 200
    /\ outcome' = "success"
    /\ rotations_only' = FALSE
    /\ pc' = [pc EXCEPT !["req"] = "done"]
    /\ UNCHANGED <<poolVars, quota_group, force_rotate, selected, attached,
                   refresh_now, check_time, error, how, refreshed, endpoint,
                   stream, attempt, account_count, email, tried_accounts,
                   last_error, n_calls, stream_error, now, obsVars,
                   sc_queue>>

RotateEligible(e) == e.kind = "HTTPStatusError" /\ e.status \in RotateStatuses

\* call_gemini_api (or the transformation of its answer) raised e
ReqUpstreamFail(e) ==
    /\ pc["req"] = "up_call"
    /\ NoUrgent
    /\ IF endpoint \in {"chat", "messages"}
       THEN IF e.kind = "HTTPStatusError"
            THEN IF e.status \in RotateStatuses
                 THEN Continue(e)
                 ELSE Fatal(e)
            ELSE IF e.kind = "ValueError" THEN Fail(503) ELSE Continue(e)
       ELSE IF endpoint = "generateContent"
            THEN IF e.kind = "ValueError" THEN Fail(503) ELSE Continue(e)
            ELSE Continue(e)
    /\ rotations_only' = (rotations_only /\ RotateEligible(e))
    /\ UNCHANGED <<poolVars, quota_group, selected, attached, refresh_now,
                   check_time, error, how, refreshed, endpoint, stream,
                   account_count, email, tried_accounts, n_calls, stream_error, now,
                   obsVars, sc_queue>>

\* The body of the StreamingResponse is iterated: stream_gemini_api is
\* called; e = NoError when it streams, else its failure, which the
\* generator turns into one error frame.
ReqStreamBody(e) ==
    /\ pc["req"] = "streaming"
    /\ NoUrgent
    /\ n_calls' = n_calls + 1
    /\ stream_error' = e
    /\ pc' = [pc EXCEPT !["req"] = "done"]
    /\ UNCHANGED <<poolVars, quota_group, force_rotate, selected, attached,
                   refresh_now, check_time, error, how, refreshed, endpoint,
                   stream, attempt, account_count, email, tried_accounts,
                   last_error, status, usage, outcome, rotations_only, now,
                   obsVars, sc_queue>>

\* ------------------------------------------- the streaming generators
\* A text is a sequence of characters; "".join is concatenation.
NoText == <<>>
Texts == {NoText, <<"H">>, <<"i">>}

\* a part of candidates[0].content.parts: the keys it has, and its text
TextPart(t) == [keys |-> {"text"}, text |-> t]
ThoughtPart(t) == [keys |-> {"text", "thought"}, text |-> t]
FunctionCallPart == [keys |-> {"functionCall"}, text |-> NoText]
Parts == {TextPart(t) : t \in Texts}
         \cup {ThoughtPart(<<"H">>), FunctionCallPart}

\* the lists of at most MaxParts parts
PartLists == UNION {[1..n -> Parts] : n \in 0..MaxParts}

\* What stream_gemini_api meets on the upstream connection, line by line.
\*   "chunk"      data: {"candidates": [{"content": {"parts": parts}}]},
\*                wrapped in {"response": ...} or not
\*   "object"     data: {} (a JSON object without candidates)
\*   "done"       data: [DONE]
\*   "blank"      data: followed by nothing
\*   "not_json"   data: followed by text json.loads rejects
\*   "not_object" data: followed by JSON that is not an object (a number)
\*   "comment"    a line that does not start with data:
ChunkLine(parts) == [kind |-> "chunk", parts |-> parts]
OtherLine(kind) == [kind |-> kind, parts |-> <<>>]
UpstreamLines ==
    {ChunkLine(parts) : parts \in PartLists}
    \cup {OtherLine(k) : k \in {"object", "done", "blank", "not_json",
                                "not_object", "comment"}}

\* stream_gemini_api yields the line to generate_stream
Yielded(line) == line.kind # "comment"

\* the line passes json.loads in generate_stream
Parsed(line) == line.kind \in {"chunk", "object", "not_object"}

\* `"response" in data` and gemini_data.get fail on JSON that is no object
RaisesOn(line) == line.kind = "not_object"

\* _extract_text_delta: the text of the first part that has a text and is
\* no thought, "" when there is none
RECURSIVE ExtractTextDelta(_)
ExtractTextDelta(parts) ==
    IF parts = <<>> THEN NoText
    ELSE IF "text" \in Head(parts).keys /\ "thought" \notin Head(parts).keys
         THEN Head(parts).text
         ELSE ExtractTextDelta(Tail(parts))

\* _convert_stream_chunk: the texts of all parts that have one, joined
RECURSIVE DeltaContent(_)
DeltaContent(parts) ==
    IF parts = <<>> THEN NoText
    ELSE (IF "text" \in Head(parts).keys THEN Head(parts).text ELSE NoText)
         \o DeltaContent(Tail(parts))

\* a frame generate_stream yields: an SSE event of the Anthropic protocol, a
\* data: frame of the OpenAI protocol
Frame(event, text) == [event |-> event, text |-> text]

\* the two events generate_stream yields before it opens the upstream stream
ClaudePrologue ==
    <<Frame("message_start", NoText), Frame("content_block_start", NoText)>>

\* the events after the last line, without and with the message_delta
ClaudeEpilogueNoDelta ==
    <<Frame("content_block_stop", NoText), Frame("message_stop", NoText)>>

ClaudeEpilogue ==
    <<Frame("content_block_stop", NoText), Frame("message_delta", NoText),
      Frame("message_stop", NoText)>>

\* the frames of one line
ClaudeFrames(line) ==
    IF Parsed(line) /\ ExtractTextDelta(line.parts) # NoText
    THEN <<Frame("content_block_delta", ExtractTextDelta(line.parts))>>
    ELSE <<>>

OpenAIFrames(line) ==
    IF Parsed(line)
    THEN <<Frame("chat.completion.chunk", DeltaContent(line.parts))>>
    ELSE <<>>

\* the sentinel, once and twice
OpenAIEpilogueTwice == <<Frame("[DONE]", NoText), Frame("[DONE]", NoText)>>

OpenAIEpilogue == <<Frame("[DONE]", NoText)>>

\* what the except clause of generate_stream yields
ErrorFrames(protocol) ==
    IF protocol = "claude" THEN <<Frame("error", NoText)>>
    ELSE <<Frame("error_chunk", NoText)>>

\* the StreamingResponse starts to iterate generate_stream, which runs up to
\* the request to the upstream
SseStart(protocol) ==
    /\ sse_pc = "idle"
    /\ sse_protocol' = protocol
    /\ sse_pc' = "streaming"
    /\ sse_lines' = 0
    /\ sse_seen' = <<>>
    /\ frames' = IF protocol = "claude" THEN ClaudePrologue ELSE <<>>
    /\ UNCHANGED <<dispatchVars, mapperVars, claudeVars>>

\* the upstream sends a line
SseLine(line) ==
    /\ sse_pc = "streaming"
    /\ sse_lines < MaxLines
    /\ sse_lines' = sse_lines + 1
    /\ sse_seen' = Append(sse_seen, line)
    /\ IF ~Yielded(line) \/ line.kind \in {"done", "blank", "not_json"}
       THEN UNCHANGED <<sse_pc, frames>>
       ELSE IF RaisesOn(line)
       THEN /\ sse_pc' = "failed"
            /\ frames' = frames \o ErrorFrames(sse_protocol)
       ELSE /\ sse_pc' = sse_pc
            /\ frames' = frames \o (IF sse_protocol = "claude"
                                    THEN ClaudeFrames(line)
                                    ELSE OpenAIFrames(line))
    /\ UNCHANGED <<sse_protocol, dispatchVars, mapperVars, claudeVars>>

\* the upstream closes the stream
SseEnd ==
    /\ sse_pc = "streaming"
    /\ sse_pc' = "ended"
    /\ frames' = frames \o (IF sse_protocol = "claude"
                            THEN ClaudeEpilogue ELSE OpenAIEpilogue)
    /\ UNCHANGED <<sse_protocol, sse_lines, sse_seen, dispatchVars, mapperVars,
                   claudeVars>>

\* the upstream fails: raise_for_status on the answer (before any line), or
\* an httpx error while the lines are read
SseFail ==
    /\ sse_pc = "streaming"
    /\ sse_pc' = "failed"
    /\ frames' = frames \o ErrorFrames(sse_protocol)
    /\ UNCHANGED <<sse_protocol, sse_lines, sse_seen, dispatchVars, mapperVars,
                   claudeVars>>

\* ------------------------------------------------------ the translators
\* Optional[str]: None, or a text
None == [is_none |-> TRUE, text |-> NoText]
Str(t) == [is_none |-> FALSE, text |-> t]

\* `msg.content is not None`
IsNotNone(content) == ~content.is_none

\* `if msg.content:` is false for None and for ""
Truthy(content) == ~content.is_none /\ content.text # NoText

\* an OpenAIMessage: role, content and the number of its tool_calls
Message(role, content, n) ==
    [role |-> role, content |-> content, tool_calls |-> n]

NoMessage == Message("none", None, 0)

Contents == {None} \cup {Str(t) : t \in Texts \cup {<<"H", "i">>}}

Messages ==
    {Message(role, content, n) :
        role \in {"user", "assistant"}, content \in Contents, n \in 0..1}

\* transform_openai_to_gemini, the parts of one message that is no system
\* message and no tool answer: its text, then its tool calls
MessageParts(msg) ==
    (IF Truthy(msg.content) THEN <<TextPart(msg.content.text)>> ELSE <<>>)
    \o [i \in 1..msg.tool_calls |-> FunctionCallPart]

\* transform_openai_to_gemini, the role of the message in contents
GeminiRole(msg) == IF msg.role = "assistant" THEN "model" ELSE msg.role

\* transform_openai_to_gemini, the contents of the request: a message
\* without parts is left out
RECURSIVE GeminiContents(_)
GeminiContents(msgs) ==
    IF msgs = <<>> THEN <<>>
    ELSE (IF MessageParts(Head(msgs)) # <<>>
          THEN <<[role |-> GeminiRole(Head(msgs)),
                  parts |-> MessageParts(Head(msgs))]>>
          ELSE <<>>)
         \o GeminiContents(Tail(msgs))

\* an upstream response: no candidate, or one with its parts and finishReason
\* ("" when the candidate has none)
FinishReasons == {"", "STOP", "MAX_TOKENS", "SAFETY"}
Candidate(parts, finishReason) ==
    [parts |-> parts, finishReason |-> finishReason]

GeminiResponse(candidates) == [candidates |-> candidates]

GeminiResponses ==
    {GeminiResponse(<<>>)}
    \cup {GeminiResponse(<<Candidate(parts, fr)>>) :
            parts \in PartLists, fr \in FinishReasons}

\* transform_gemini_to_openai: the parts counted as text, as function call
IsTextPart(part) == "text" \in part.keys
IsFunctionCall(part) == "text" \notin part.keys /\ "functionCall" \in part.keys

\* transform_gemini_to_openai: finish_reason; the finishReason of the
\* candidate is looked at after the function calls
FinishReason(candidate) ==
    IF candidate.finishReason = "STOP" THEN "stop"
    ELSE IF candidate.finishReason = "MAX_TOKENS" THEN "length"
    ELSE IF SelectSeq(candidate.parts, IsFunctionCall) # <<>> THEN "tool_calls"
    ELSE "stop"

\* "".join(text_parts)
RECURSIVE Join(_)
Join(parts) ==
    IF parts = <<>> THEN NoText ELSE Head(parts).text \o Join(Tail(parts))

\* transform_gemini_to_openai: choices[0] of the answer
TransformGeminiToOpenAI(response) ==
    IF response.candidates = <<>>
    THEN [content |-> None, tool_calls |-> 0, finish_reason |-> "stop"]
    ELSE LET candidate == response.candidates[1]
             text_parts == SelectSeq(candidate.parts, IsTextPart)
             function_calls == SelectSeq(candidate.parts, IsFunctionCall)
         IN [content |-> IF text_parts # <<>> THEN Str(Join(text_parts))
                         ELSE None,
             tool_calls |-> Len(function_calls),
             finish_reason |-> FinishReason(candidate)]

NoResponse == [content |-> None, tool_calls |-> 0, finish_reason |-> ""]

\* a chat request with the one message msg reaches transform_openai_to_gemini
OpenAIToGemini(msg) ==
    /\ map_pc = "idle"
    /\ map_pc' = "request_mapped"
    /\ openai_message' = msg
    /\ gemini_contents' = GeminiContents(<<msg>>)
    /\ UNCHANGED <<gemini_response, openai_response, schemaVars>>
    /\ UNCHANGED <<dispatchVars, streamVars, claudeVars>>

\* the parts made of the message come back as the candidate of an upstream
\* response, which transform_gemini_to_openai translates
FeedBack ==
    /\ map_pc = "request_mapped"
    /\ map_pc' = "response_mapped"
    /\ gemini_response' =
           GeminiResponse(<<Candidate(MessageParts(openai_message), "STOP")>>)
    /\ openai_response' = TransformGeminiToOpenAI(gemini_response')
    /\ UNCHANGED <<openai_message, gemini_contents, schemaVars>>
    /\ UNCHANGED <<dispatchVars, streamVars, claudeVars>>

\* _handle_non_streaming: the upstream answers, the answer is translated
GeminiToOpenAI(resp) ==
    /\ map_pc = "idle"
    /\ map_pc' = "response_mapped"
    /\ gemini_response' = resp
    /\ openai_response' = TransformGeminiToOpenAI(resp)
    /\ UNCHANGED <<openai_message, gemini_contents, schemaVars>>
    /\ UNCHANGED <<dispatchVars, streamVars, claudeVars>>

\* --------------------------------------------------- the schema cleaners
\* A JSON value: a string, a dict (its entries, one per key), a list, or
\* another scalar (a number, true, false, null).
JStr(s) == [tag |-> "str", str |-> s, entries |-> {}, list |-> <<>>]
JDict(es) == [tag |-> "dict", str |-> "", entries |-> es, list |-> <<>>]
JList(l) == [tag |-> "list", str |-> "", entries |-> {}, list |-> l]
JOther == [tag |-> "other", str |-> "", entries |-> {}, list |-> <<>>]
Entry(k, v) == [k |-> k, v |-> v]

\* allowed_keys of both cleaners
AllowedKeys ==
    {"type", "description", "properties", "required", "items", "enum",
     "format", "nullable"}

\* a string with every cased character changed to the other case
SwapCase(s) ==
    CASE s = "string" -> "STRING"
      [] s = "String" -> "sTRING"
      [] s = "STRING" -> "string"
      [] s = "object" -> "OBJECT"
      [] s = "OBJECT" -> "object"
      [] s = "array" -> "ARRAY"
      [] s = "ARRAY" -> "array"
      [] OTHER -> s

\* str.upper() on the names of types
Upper(s) ==
    CASE s = "string" -> "STRING"
      [] s = "String" -> "STRING"
      [] s = "object" -> "OBJECT"
      [] s = "array" -> "ARRAY"
      [] OTHER -> s

\* the entries of a dict whose key is allowed
Allowed(es) == {e \in es : e.k \in AllowedKeys}

\* openai_mapper._clean_json_schema, as the dict it leaves behind
RECURSIVE CleanJsonSchema(_)
CleanJsonSchema(s) ==
    JDict({Entry(e.k,
                 IF e.k = "type" /\ e.v.tag = "str"
                 THEN JStr(Upper(e.v.str))
                 ELSE IF e.k = "properties" /\ e.v.tag = "dict"
                 THEN JDict({Entry(p.k, IF p.v.tag = "dict"
                                        THEN CleanJsonSchema(p.v)
                                        ELSE p.v) : p \in e.v.entries})
                 ELSE IF e.k = "items" /\ e.v.tag = "dict"
                 THEN CleanJsonSchema(e.v)
                 ELSE e.v) : e \in Allowed(s.entries)})

\* claude_mapper._clean_schema, the inner clean on the deep copy: every dict
\* it reaches, the dict of the properties included, keeps its allowed keys
RECURSIVE CleanSchema(_)
CleanSchema(obj) ==
    IF obj.tag = "dict"
    THEN JDict({Entry(e.k,
                      IF e.k = "type" /\ e.v.tag = "str"
                      THEN JStr(Upper(e.v.str))
                      ELSE CleanSchema(e.v)) : e \in Allowed(obj.entries)})
    ELSE IF obj.tag = "list"
    THEN JList([i \in 1..Len(obj.list) |-> CleanSchema(obj.list[i])])
    ELSE obj

\* the cleaner of a mapper
CleanWith(c, s) == IF c = "openai" THEN CleanJsonSchema(s) ELSE CleanSchema(s)

\* The schemas given to the cleaners.  A schema without schemas inside names
\* a type, in one of three spellings or as a list; it may hold a key the
\* upstream does not know (title), a description, a list of required names.
TypeValues ==
    {JStr("string"), JStr("String"), JStr("STRING"),
     JList(<<JStr("string"), JStr("null")>>)}

LeafExtras ==
    {{}, {Entry("title", JStr("City"))},
     {Entry("title", JStr("City")), Entry("nullable", JOther)}}

Leaves ==
    {JDict({Entry("type", ty)} \cup extra) :
        ty \in TypeValues, extra \in LeafExtras}

\* the names of properties: "type" is also an allowed key
PropertyNames == {"city", "type"}

\* the schemas with schemas inside: objects with one property, arrays with
\* items as one schema or as a list of schemas; and values that are no dict
\* where a schema is expected
Over(inner) ==
    {JDict({Entry("type", JStr("object")),
            Entry("properties", JDict({Entry(name, sub)}))} \cup extra) :
        name \in PropertyNames, sub \in inner \cup {JStr("string")},
        extra \in {{}, {Entry("additionalProperties", JOther),
                        Entry("required", JList(<<JStr("city")>>))}}}
    \cup {JDict({Entry("type", JStr("array")), Entry("items", sub)}) :
            sub \in inner}
    \cup {JDict({Entry("type", JStr("array")),
                 Entry("items", JList(<<sub>>))}) : sub \in inner}

\* the schemas nested at most d deep
RECURSIVE SchemasOfDepth(_)
SchemasOfDepth(d) ==
    IF d = 0 THEN Leaves
    ELSE SchemasOfDepth(d - 1) \cup Over(SchemasOfDepth(d - 1))

Schemas == SchemasOfDepth(MaxDepth)

\* a tool with the parameters (input_schema) s reaches the mapper c
Clean(c, s) ==
    /\ cleaned = <<>>
    /\ cleaner' = c
    /\ schema' = s
    /\ cleaned' = <<CleanWith(c, s)>>
    /\ UNCHANGED <<map_pc, openai_message, gemini_contents, gemini_response,
                   openai_response>>
    /\ UNCHANGED <<dispatchVars, streamVars, claudeVars>>

\* the cleaned schema is given to the same cleaner again
CleanAgain ==
    /\ Len(cleaned) = 1
    /\ cleaned' = Append(cleaned, CleanWith(cleaner, cleaned[1]))
    /\ UNCHANGED <<cleaner, schema>>
    /\ UNCHANGED <<map_pc, openai_message, gemini_contents, gemini_response,
                   openai_response>>
    /\ UNCHANGED <<dispatchVars, streamVars, claudeVars>>

\* -------------------------------------------- the translators: tool calls
\* JSON null (None)
JNull == [tag |-> "null", str |-> "", entries |-> {}, list |-> <<>>]

\* A content block of type tool_use of a ClaudeMessage: a dict, so the keys
\* it has, and its id, name and input (of a key it lacks: "", null).
ToolUse(keys, id, name, input) ==
    [keys |-> keys, id |-> id, name |-> name, input |-> input]

NoToolUse == ToolUse({}, "", "", JNull)

ToolNames == {"get_weather", ""}
ToolInputs ==
    {JDict({}),
     JDict({Entry("city", JStr("Paris"))}),
     JDict({Entry("city", JStr("Paris")), Entry("unit", JNull)}),
     JDict({Entry("where", JDict({Entry("city", JStr("Paris"))})),
            Entry("days", JList(<<JOther, JNull>>))}),
     JNull}

ToolUses ==
    {ToolUse({"type", "id", "name", "input"}, "toolu_01", name, input) :
        name \in ToolNames, input \in ToolInputs}
    \cup {ToolUse({"type", "id", "name"}, "toolu_01", name, JNull) :
            name \in ToolNames}
    \cup {ToolUse({"type", "id", "input"}, "toolu_01", "", input) :
            input \in ToolInputs}

\* a part {"functionCall": {"name": ..., "args": ...}}
FunctionCall(name, args) ==
    [keys |-> {"functionCall"}, name |-> name, args |-> args]

NoFunctionCall == [keys |-> {}, name |-> "", args |-> JNull]

\* transform_claude_to_gemini, the part made of a tool_use block:
\* block.get("name", ""), block.get("input", {})
ToolUsePart(block) ==
    FunctionCall(IF "name" \in block.keys THEN block.name ELSE "",
                 IF "input" \in block.keys THEN block.input ELSE JDict({}))

\* a tool_use block that leaves its input out
ToolUseBlockWithoutInput(part) ==
    ToolUse({"type", "id", "name"}, "toolu_<uuid4>", part.name, JNull)

\* transform_gemini_to_claude, the block made of a functionCall part: a
\* ClaudeResponseContentBlock with a fresh id, dumped without its fields
\* that are None
ToolUseBlock(part) ==
    ToolUse({"type", "id", "name"}
                \cup (IF part.args = JNull THEN {} ELSE {"input"}),
            "toolu_<uuid4>", part.name, part.args)

\* a messages request with the tool_use block reaches
\* transform_claude_to_gemini
ClaudeToGemini(block) ==
    /\ claude_pc = "idle"
    /\ claude_pc' = "request_mapped"
    /\ tool_use' = block
    /\ function_call' = ToolUsePart(block)
    /\ UNCHANGED tool_use_back
    /\ UNCHANGED <<dispatchVars, streamVars, mapperVars>>

\* the part comes back in the candidate of an upstream response, which
\* transform_gemini_to_claude translates
GeminiToClaude ==
    /\ claude_pc = "request_mapped"
    /\ claude_pc' = "response_mapped"
    /\ tool_use_back' = ToolUseBlock(function_call)
    /\ UNCHANGED <<tool_use, function_call>>
    /\ UNCHANGED <<dispatchVars, streamVars, mapperVars>>

\* ------------------------------------------------------- specifications
InitTask ==
    /\ pc = [t \in Tasks |-> "idle"]
    /\ quota_group = [t \in Tasks |-> "gemini"]
    /\ force_rotate = [t \in Tasks |-> FALSE]
    /\ selected = [t \in Tasks |-> NoId]
    /\ attached = [t \in Tasks |-> TRUE]
    /\ refresh_now = [t \in Tasks |-> 0]
    /\ check_time = [t \in Tasks |-> 0]
    /\ error = [t \in Tasks |-> NoError]
    /\ how = [t \in Tasks |-> "none"]
    /\ refreshed = [t \in Tasks |-> 0]
    /\ sc_queue = <<>>
    /\ started = 0
    /\ other_calls = 0
    /\ imports = 0
    /\ short_refreshed = {}
    /\ last_plain = <<>>
    /\ overtaken = {}
    /\ picked = NoId
    /\ lock = "free"
    /\ lk_pc = [th \in LockThreads |-> "idle"]
    /\ lk_toks = <<>>
    /\ lk_rows = <<>>
    /\ accesses = {}
    /\ qt_pc = "idle"
    /\ qt_queue = <<>>
    /\ qt_polled = {}
    /\ qt_answer = [kind |-> "none", fractions |-> <<>>]

InitReq ==
    /\ endpoint = "chat"
    /\ stream = FALSE
    /\ attempt = 0
    /\ account_count = 0
    /\ email = Unbound
    /\ tried_accounts = {}
    /\ last_error = NoError
    /\ status = 0
    /\ n_calls = 0
    /\ usage = <<>>
    /\ stream_error = NoError
    /\ outcome = "none"
    /\ rotations_only = TRUE

\* no generator runs
InitStream ==
    /\ sse_protocol = "openai"
    /\ sse_pc = "idle"
    /\ sse_lines = 0
    /\ frames = <<>>
    /\ sse_seen = <<>>

\* nothing was translated, nothing cleaned
InitMapper ==
    /\ map_pc = "idle"
    /\ openai_message = NoMessage
    /\ gemini_contents = <<>>
    /\ gemini_response = GeminiResponse(<<>>)
    /\ openai_response = NoResponse
    /\ cleaner = "openai"
    /\ schema = JDict({})
    /\ cleaned = <<>>

\* no tool call was translated
InitClaude ==
    /\ claude_pc = "idle"
    /\ tool_use = NoToolUse
    /\ function_call = NoFunctionCall
    /\ tool_use_back = NoToolUse

InitXlat == InitStream /\ InitMapper /\ InitClaude

\* TokenManager() followed by load_accounts() on the rows of the database
InitPool(rows) ==
    /\ db = rows
    /\ tokens = LoadRows(<<>>, rows)
    /\ current_index = 0
    /\ last_used = <<>>
    /\ refresh_lock = "free"
    /\ waiters = <<>>
    /\ held = [id \in IdSet |-> NoToken]
    /\ now = 0

\* the rows the dispatch specification starts from: pools of no, one, two
\* and six accounts, of tokens that are fresh, scored, or due for refresh
FreshExpiry == 12 * RefreshMargin
DueExpiry == RefreshMargin
Row(i, exp, q) == Token(Ids[i], exp, RealProject, NoTier, q)
Fresh(i) == Row(i, FreshExpiry, NoQuota)
Scored(i) == Row(i, FreshExpiry, 8000)
Due(i) == Row(i, DueExpiry, NoQuota)
DispatchRows ==
    {<<>>, <<Fresh(1)>>, <<Due(1)>>,
     <<Fresh(1), Fresh(2)>>, <<Scored(1), Fresh(2)>>, <<Scored(1), Scored(2)>>,
     <<Due(1), Fresh(2)>>, <<Fresh(1), Due(2)>>,
     [i \in 1..Len(Ids) |-> Fresh(i)]}

Init ==
    /\ \E rows \in DispatchRows : InitPool(rows)
    /\ InitTask
    /\ InitReq
    /\ InitXlat

\* the translators take no step, and no refresh is remembered
Idle == UNCHANGED <<xlatVars, histVars, lockVars, quotaVars>>

\* _refresh_token of task t, for refresh responses with expires_in in xs
RefreshStep(t, xs) ==
    \/ RfWake(t)
    \/ RfCheck(t)
    \/ \E x \in xs : RfOk(t, x)
    \/ \E e \in RefreshErrors : RfFail(t, e)

\* get_token of task t, with the refreshes and metadata fetches it makes
GetTokenStep(t, xs) ==
    \/ GtSelect(t)
    \/ GtExpiry(t)
    \/ RefreshStep(t, xs)
    \/ GtProject(t)
    \/ \E m \in MetadataAnswers : MdDone(t, m)

Next ==
    \/ (\E ep \in Endpoints, st \in BOOLEAN : ReqStart(ep, st)) /\ Idle
    \/ ReqGotToken /\ Idle
    \/ ReqTokenError /\ Idle
    \/ ReqUpstreamOk /\ Idle
    \/ (\E e \in UpstreamErrors : ReqUpstreamFail(e)) /\ Idle
    \/ (\E e \in UpstreamErrors \cup {NoError} : ReqStreamBody(e)) /\ Idle
    \/ \E t \in {"req", "g1"} : GetTokenStep(t, {FreshExpiry}) /\ Idle
    \/ GStart("g1", "gemini", FALSE, MaxCalls) /\ Idle
    \/ GStart("g1", "image_gen", TRUE, MaxCalls) /\ Idle
    \/ GReturn("g1") /\ Idle
    \/ GRaised("g1") /\ Idle
    \/ OAuthCallback(FreshExpiry, NoProject) /\ Idle

Spec == Init /\ [][Next]_vars

\* The pool specification: two callers of get_token, the refresh scheduler,
\* reloads, and the clock.
Soon(i) == Row(i, DueExpiry + TickStep, NoQuota)
Bare(i) == Token(Ids[i], DueExpiry, NoProject, NoTier, NoQuota)
PoolRows ==
    {<<Fresh(1), Fresh(2)>>, <<Bare(1), Fresh(2)>>, <<Soon(1)>>}

InitPoolSpec ==
    /\ \E rows \in PoolRows : InitPool(rows)
    /\ InitTask
    /\ InitReq
    /\ InitXlat

NextPool ==
    \/ \E t \in Callers, g \in {"gemini", "image_gen"}, f \in BOOLEAN :
           GStart(t, g, f, MaxPoolCalls) /\ Idle
    \/ \E t \in Callers : GetTokenStep(t, ExpiresIn) /\ Idle
    \/ \E t \in Callers : GReturn(t) /\ Idle
    \/ \E t \in Callers : GRaised(t) /\ Idle
    \/ ScTick /\ Idle
    \/ ScNext /\ Idle
    \/ RefreshStep("sched", ExpiresIn) /\ Idle
    \/ LoadAccounts /\ Idle
    \/ Tick(TickStep) /\ Idle

SpecPool == InitPoolSpec /\ [][NextPool]_vars

\* The selection specification: get_token calls, one after the other, on
\* pools of fresh tokens with every arrangement of the scores below (none,
\* 0.05, 0.5, 0.72, 0.76, 0.8), and the clock.
Scores == {NoQuota, QuotaFloor, 5000, 7200, 7600, 8000}
ScoredRows ==
    UNION {{[i \in 1..n |-> Row(i, FreshExpiry, q[i])] : q \in [1..n -> Scores]} :
           n \in 1..MaxScored}

InitSelect ==
    /\ \E rows \in ScoredRows : InitPool(rows)
    /\ InitTask
    /\ InitReq
    /\ InitXlat

NextSelect ==
    \/ \E g \in QuotaGroups, f \in BOOLEAN :
           GStart("g1", g, f, MaxSelectCalls) /\ Idle
    \/ GtSelect("g1") /\ Idle
    \/ GtExpiry("g1") /\ Idle
    \/ GtProject("g1") /\ Idle
    \/ GReturn("g1") /\ Idle
    \/ Tick(TickStep) /\ Idle

SpecSelect == InitSelect /\ [][NextSelect]_vars

\* The store specification: get_token calls on pools loaded from accounts
\* with and without credentials, while accounts are deleted and imported.
NoRefresh(i) == [Fresh(i) EXCEPT !.refresh_token = NoCredential]
DueNoRefresh(i) == [Due(i) EXCEPT !.refresh_token = NoCredential]
NoAccess(i) == [Fresh(i) EXCEPT !.access_token = NoCredential]
StoreRowKinds(i) == {Fresh(i), Due(i), NoRefresh(i), DueNoRefresh(i), NoAccess(i)}
StoreRows ==
    {<<>>} \cup {<<r>> : r \in StoreRowKinds(1)}
           \cup {<<r, q>> : r \in StoreRowKinds(1), q \in StoreRowKinds(2)}

InitStore ==
    /\ \E rows \in StoreRows : InitPool(rows)
    /\ InitTask
    /\ InitReq
    /\ InitXlat

NextStore ==
    \/ \E g \in {"gemini", "image_gen"}, f \in BOOLEAN :
           GStart("g1", g, f, MaxStoreCalls) /\ Idle
    \/ GtSelect("g1") /\ Idle
    \/ GtExpiry("g1") /\ Idle
    \/ RfCheck("g1") /\ Idle
    \/ RfOk("g1", FreshExpiry) /\ Idle
    \/ \E e \in RefreshErrors : RfFail("g1", e) /\ Idle
    \/ GtProject("g1") /\ Idle
    \/ GReturn("g1") /\ Idle
    \/ GRaised("g1") /\ Idle
    \/ \E id \in IdSet : DeleteAccount(id) /\ Idle
    \/ \E id \in IdSet, access \in {NoCredential, AccessToken},
          refresh \in {NoCredential, RotatedRefreshToken} :
           ImportToken(id, access, refresh, FreshExpiry) /\ Idle

SpecStore == InitStore /\ [][NextStore]_vars

\* The refresh specification: a caller of get_token and the scheduler
\* refresh tokens that are due, for answers with every expires_in, while
\* load_accounts runs and the clock goes.  It remembers which tasks were
\* overtaken: a task enters _refresh_token, and another task's refresh of
\* the same identity succeeds before it gets the lock.
Entered(t) == pc[t] \in {"gt_expiry", "sc_loop"} /\ pc'[t] \in {"rf_check", "rf_wait"}

Enters(t) == overtaken' = IF Entered(t) THEN overtaken \ {t} ELSE overtaken

Overtakes(t) ==
    overtaken' = overtaken \cup
                 {u \in Tasks \ {t} : pc[u] = "rf_wait" /\ selected[u] = selected[t]}

RefreshRows == {<<Soon(1)>>, <<Due(1), Fresh(2)>>}

InitRefresh ==
    /\ \E rows \in RefreshRows : InitPool(rows)
    /\ InitTask
    /\ InitReq
    /\ InitXlat

NextRefresh ==
    \/ GStart("g1", "gemini", FALSE, MaxRefreshCalls) /\ Idle
    \/ GtSelect("g1") /\ Idle
    \/ GtExpiry("g1") /\ Enters("g1") /\ UNCHANGED <<xlatVars, picked, lockVars, quotaVars>>
    \/ GtProject("g1") /\ Idle
    \/ GReturn("g1") /\ Idle
    \/ GRaised("g1") /\ Idle
    \/ ScTick /\ Idle
    \/ ScNext /\ Enters("sched") /\ UNCHANGED <<xlatVars, picked, lockVars, quotaVars>>
    \/ \E t \in {"g1", "sched"} : RfWake(t) /\ Idle
    \/ \E t \in {"g1", "sched"} : RfCheck(t) /\ Idle
    \/ \E t \in {"g1", "sched"}, x \in ExpiresIn \cup {ShortExpiresIn} :
           RfOk(t, x) /\ Overtakes(t) /\ UNCHANGED <<xlatVars, picked, lockVars, quotaVars>>
    \/ \E t \in {"g1", "sched"}, e \in {ValueError} : RfFail(t, e) /\ Idle
    \/ LoadAccounts /\ Idle
    \/ Tick(TickStep) /\ Idle

SpecRefresh == InitRefresh /\ [][NextRefresh]_vars

\* The tick specification: the refresh specification on pools with one and
\* two due entries and answers with expires_in of 300 s and more, where every task that can take a step eventually takes
\* one: the event loop runs every ready task, and the calls of the token
\* endpoint end (httpx times out).
SchedulerStep ==
    \/ ScNext /\ Enters("sched") /\ UNCHANGED <<xlatVars, picked, lockVars, quotaVars>>
    \/ RfWake("sched") /\ Idle
    \/ RfCheck("sched") /\ Idle
    \/ \E x \in ExpiresIn :
           RfOk("sched", x) /\ Overtakes("sched")
               /\ UNCHANGED <<xlatVars, picked, lockVars, quotaVars>>
    \/ RfFail("sched", ValueError) /\ Idle

CallerStep ==
    \/ GtSelect("g1") /\ Idle
    \/ GtExpiry("g1") /\ Enters("g1") /\ UNCHANGED <<xlatVars, picked, lockVars, quotaVars>>
    \/ GtProject("g1") /\ Idle
    \/ GReturn("g1") /\ Idle
    \/ GRaised("g1") /\ Idle
    \/ RfWake("g1") /\ Idle
    \/ RfCheck("g1") /\ Idle
    \/ \E x \in ExpiresIn :
           RfOk("g1", x) /\ Overtakes("g1")
               /\ UNCHANGED <<xlatVars, picked, lockVars, quotaVars>>
    \/ RfFail("g1", ValueError) /\ Idle

TickRows == {<<Due(1), Due(2)>>, <<Due(1), Fresh(2)>>}

InitTicks ==
    /\ \E rows \in TickRows : InitPool(rows)
    /\ InitTask
    /\ InitReq
    /\ InitXlat

NextTicks ==
    \/ GStart("g1", "gemini", FALSE, MaxRefreshCalls) /\ Idle
    \/ CallerStep
    \/ ScTick /\ Idle
    \/ SchedulerStep
    \/ LoadAccounts /\ Idle
    \/ Tick(TickStep) /\ Idle

SpecTicks ==
    /\ InitTicks
    /\ [][NextTicks]_vars
    /\ WF_vars(SchedulerStep)
    /\ WF_vars(CallerStep)

\* The rotation specification: get_token calls that never end, on pools of
\* two and more identities without scores, with and without a PRO tier.  The
\* tokens are fresh and have a project, so a call is its selection.  The
\* counter is kept modulo CounterCycle, a multiple of the length of every list
\* it indexes: its residues are those of the program's unbounded int.
RECURSIVE Factorial(_)
Factorial(n) == IF n <= 1 THEN 1 ELSE n * Factorial(n - 1)

CounterCycle == Factorial(MaxRotated)

RotatedTiers == {NoTier, "g1-pro-tier"}
RotatedRows ==
    UNION {{[i \in 1..n |-> Token(Ids[i], FreshExpiry, RealProject, tier[i], NoQuota)] :
               tier \in [1..n -> RotatedTiers]} :
           n \in 2..MaxRotated}

InitRotate ==
    /\ \E rows \in RotatedRows : InitPool(rows)
    /\ InitTask
    /\ InitReq
    /\ InitXlat

\* a whole get_token(quota_group, force_rotate) call
Rotate(group, force) ==
    /\ \A t \in Tasks : pc[t] = "idle"
    /\ LET r == SelectToken(tokens, current_index, last_used, now, group, force)
       IN  /\ current_index' = r.idx % CounterCycle
           /\ last_used' = r.lu
           /\ picked' = r.id
    /\ quota_group' = [quota_group EXCEPT !["g1"] = group]
    /\ force_rotate' = [force_rotate EXCEPT !["g1"] = force]
    /\ UNCHANGED <<tokens, refresh_lock, waiters, db, held, pc, selected,
                   attached, refresh_now, check_time, error, how, refreshed,
                   reqVars, now, obsVars, sc_queue, overtaken, lockVars, quotaVars,
                   xlatVars>>

Rotations == \E g \in QuotaGroups, f \in BOOLEAN : Rotate(g, f)

NextRotate ==
    \/ Rotations
    \/ Tick(TickStep) /\ Idle

\* requests keep coming and are served
SpecRotate == InitRotate /\ [][NextRotate]_vars /\ WF_vars(Rotations)

\* The lock specification: get_token on the event loop, statement by
\* statement around its `with self._lock` blocks, while a worker thread runs
\* load_accounts (the sync route delete_account starts it with asyncio.run)
\* or reload_account.  The tokens are fresh and have a project.  Every write
\* of _tokens, _current_index and _last_used and every read of the counter
\* and of the sticky pair by a selection is recorded with whether the thread
\* held the lock.
Access(field, kind, thread) ==
    [field |-> field, kind |-> kind, locked |-> lock = thread]

LkUnchanged ==
    UNCHANGED <<refresh_lock, waiters, db, held, pc, attached, refresh_now,
                check_time, error, how, refreshed, reqVars, now, started,
                imports, last_plain, short_refreshed, sc_queue, histVars,
                quotaVars, xlatVars>>

\* get_token is called
LkCall(group, force) ==
    /\ lk_pc["loop"] = "idle"
    /\ tokens # <<>>
    /\ other_calls < MaxLockCalls
    /\ other_calls' = other_calls + 1
    /\ quota_group' = [quota_group EXCEPT !["g1"] = group]
    /\ force_rotate' = [force_rotate EXCEPT !["g1"] = force]
    /\ selected' = [selected EXCEPT !["g1"] = NoId]
    /\ lk_pc' = [lk_pc EXCEPT !["loop"] = "sticky"]
    /\ UNCHANGED <<tokens, current_index, last_used, lock, lk_toks, lk_rows,
                   accesses>>
    /\ LkUnchanged

\* whether the selection on toks goes by the counter
UsesCounter(toks, group, force) ==
    SelectToken(toks, 0, <<>>, 0, group, force).idx # 0

\* step 1, and step 2 up to the lock: the sticky pair and the entries are
\* read; a selection that does not go by the counter is made
LkSticky ==
    /\ lk_pc["loop"] = "sticky"
    /\ LET g == quota_group["g1"]
           f == force_rotate["g1"]
       IN  /\ accesses' = IF f \/ g = "image_gen" THEN accesses
                          ELSE accesses \cup {Access("_last_used", "read", "loop")}
           /\ IF StickyHit(tokens, last_used, now, g, f)
              THEN /\ selected' = [selected EXCEPT !["g1"] = last_used[1]]
                   /\ lk_pc' = [lk_pc EXCEPT !["loop"] = "idle"]
                   /\ UNCHANGED lk_toks
              ELSE IF UsesCounter(tokens, g, f)
                   THEN /\ lk_toks' = tokens
                        /\ lk_pc' = [lk_pc EXCEPT !["loop"] = "acquire"]
                        /\ UNCHANGED selected
                   ELSE /\ selected' = [selected EXCEPT !["g1"] =
                                           SelectToken(tokens, 0, <<>>, now, g, f).id]
                        /\ lk_pc' = [lk_pc EXCEPT !["loop"] =
                                        IF g = "image_gen" THEN "idle" ELSE "pair"]
                        /\ UNCHANGED lk_toks
    /\ UNCHANGED <<tokens, current_index, last_used, quota_group, force_rotate,
                   other_calls, lock, lk_rows>>
    /\ LkUnchanged

\* with self._lock:
LkAcquire ==
    /\ lk_pc["loop"] = "acquire"
    /\ lock = "free"
    /\ lock' = "loop"
    /\ lk_pc' = [lk_pc EXCEPT !["loop"] = "counter"]
    /\ UNCHANGED <<tokens, current_index, last_used, quota_group, force_rotate,
                   selected, other_calls, lk_toks, lk_rows, accesses>>
    /\ LkUnchanged

\* idx = self._current_index % len(...); self._current_index += 1; the
\* block ends and the entry at idx is taken
LkCounter ==
    /\ lk_pc["loop"] = "counter"
    /\ LET g == quota_group["g1"]
           r == SelectToken(lk_toks, current_index, <<>>, now, g,
                            force_rotate["g1"])
       IN  /\ current_index' = r.idx
           /\ selected' = [selected EXCEPT !["g1"] = r.id]
           /\ lk_pc' = [lk_pc EXCEPT !["loop"] =
                           IF g = "image_gen" THEN "idle" ELSE "pair"]
    /\ accesses' = accesses \cup {Access("_current_index", "read", "loop"),
                                  Access("_current_index", "write", "loop")}
    /\ lock' = "free"
    /\ UNCHANGED <<tokens, last_used, quota_group, force_rotate, other_calls,
                   lk_toks, lk_rows>>
    /\ LkUnchanged

\* self._last_used = (selected_token.account_id, time.time())
LkPair ==
    /\ lk_pc["loop"] = "pair"
    /\ last_used' = <<selected["g1"], now>>
    /\ accesses' = accesses \cup {Access("_last_used", "write", "loop")}
    /\ lk_pc' = [lk_pc EXCEPT !["loop"] = "idle"]
    /\ UNCHANGED <<tokens, current_index, quota_group, force_rotate, selected,
                   other_calls, lock, lk_toks, lk_rows>>
    /\ LkUnchanged

\* load_accounts starts on the worker thread: the accounts are read
WkLoad ==
    /\ lk_pc["worker"] = "idle"
    /\ lk_rows' = db
    /\ lk_pc' = [lk_pc EXCEPT !["worker"] = "put"]
    /\ UNCHANGED <<tokens, current_index, last_used, quota_group, force_rotate,
                   selected, other_calls, lock, lk_toks, accesses>>
    /\ LkUnchanged

\* one turn of its loop: self._tokens[acc.id] = ProxyToken(...)
WkPut ==
    /\ lk_pc["worker"] = "put"
    /\ IF lk_rows = <<>>
       THEN /\ lk_pc' = [lk_pc EXCEPT !["worker"] = "idle"]
            /\ UNCHANGED <<tokens, lk_rows, accesses>>
       ELSE /\ lk_rows' = Tail(lk_rows)
            /\ tokens' = LoadRows(tokens, <<Head(lk_rows)>>)
            /\ accesses' = IF HasCredential(Head(lk_rows))
                           THEN accesses \cup {Access("_tokens", "write", "worker")}
                           ELSE accesses
            /\ UNCHANGED lk_pc
    /\ UNCHANGED <<current_index, last_used, quota_group, force_rotate, selected,
                   other_calls, lock, lk_toks>>
    /\ LkUnchanged

\* reload_account(id) on the worker thread
ReloadAccount(id) ==
    /\ lk_pc["worker"] = "idle"
    /\ HasId(db, id)
    /\ tokens' = PutToken(tokens, TokenOf(db, id))
    /\ accesses' = accesses \cup {Access("_tokens", "write", "worker")}
    /\ UNCHANGED <<current_index, last_used, quota_group, force_rotate, selected,
                   other_calls, lock, lk_pc, lk_toks, lk_rows>>
    /\ LkUnchanged

LockRows ==
    {<<Fresh(1), Fresh(2)>>, <<Scored(1), Fresh(2)>>,
     <<Fresh(1), Fresh(2), Fresh(3)>>}

InitLock ==
    /\ \E rows \in LockRows : InitPool(rows)
    /\ InitTask
    /\ InitReq
    /\ InitXlat

NextLock ==
    \/ \E g \in {"gemini", "image_gen"}, f \in BOOLEAN : LkCall(g, f)
    \/ LkSticky
    \/ LkAcquire
    \/ LkCounter
    \/ LkPair
    \/ WkLoad
    \/ WkPut
    \/ \E id \in IdSet : ReloadAccount(id)
    \/ Tick(TickStep) /\ Idle

SpecLock == InitLock /\ [][NextLock]_vars

\* The quota specification: update_quotas of the quota scheduler, with its
\* backfill of the metadata, beside get_token calls with their metadata
\* step.  The tokens are fresh; load_accounts does not run.
\* _save_average_quota_to_db
SaveQuota(rows, id, q) ==
    [i \in 1..Len(rows) |->
        IF rows[i].account_id = id
        THEN [rows[i] EXCEPT !.average_quota = q] ELSE rows[i]]

\* _fetch_metadata when _save_metadata_to_db raises: the tier is assigned,
\* the except clause assigns the fallback project, no row is written
MetadataUnsaved(tok, m) ==
    [tok EXCEPT !.project_id = FallbackProject, !.subscription_tier = m.tier]

MdSaveFails(t, m) ==
    /\ pc[t] = "md_call"
    /\ NoUrgent
    /\ WriteTok(t, MetadataUnsaved(Tok(t), m))
    /\ pc' = [pc EXCEPT ![t] = "gt_return"]
    /\ UNCHANGED <<current_index, last_used, refresh_lock, waiters, db,
                   quota_group, force_rotate, selected, attached, refresh_now,
                   check_time, error, how, refreshed, reqVars, now, obsVars,
                   sc_queue>>

\* The answers of fetchAvailableModels to the poll of one entry: a status
\* other than 200, an exception, or the remainingFraction values it reports
\* for the three representative models (in 1/10000).
NoAnswer == [kind |-> "none", fractions |-> <<>>]
Non200 == [kind |-> "non200", fractions |-> <<>>]
PollRaises == [kind |-> "raises", fractions |-> <<>>]
Reports(fs) == [kind |-> "ok", fractions |-> fs]
PollAnswers ==
    {Non200, PollRaises, Reports(<<>>), Reports(<<9000, 8000, 7000>>),
     Reports(<<1000, 3000>>)}

RECURSIVE Sum(_)
Sum(fs) == IF fs = <<>> THEN 0 ELSE Head(fs) + Sum(Tail(fs))

\* round(sum(fractions) / len(fractions), 4)
Average(fs) == Sum(fs) \div Len(fs)

\* the score of a polled entry that takes whatever was reported, zero when
\* nothing was
PolledAlways(tok, answer) ==
    IF answer.kind = "ok"
    THEN [tok EXCEPT !.average_quota =
                        IF answer.fractions = <<>> THEN 0
                        ELSE Average(answer.fractions)]
    ELSE tok

\* the entry after its poll
Polled(tok, answer) ==
    IF answer.kind = "ok" /\ answer.fractions # <<>>
    THEN [tok EXCEPT !.average_quota = Average(answer.fractions)]
    ELSE tok

\* where the loop of update_quotas is with the entries of queue left
QtAt(queue, toks) ==
    IF queue = <<>> THEN "idle"
    ELSE IF TokenOf(toks, Head(queue)).subscription_tier = NoTier
         THEN "meta" ELSE "poll"

QtUnchanged ==
    UNCHANGED <<current_index, last_used, refresh_lock, waiters, held, taskVars,
                reqVars, now, obsVars, sc_queue, histVars, lockVars, xlatVars>>

\* update_quotas starts: for token in list(self._tokens.values())
QtTick ==
    /\ qt_pc = "idle"
    /\ NoUrgent
    /\ tokens # <<>>
    /\ qt_queue' = [i \in 1..Len(tokens) |-> tokens[i].account_id]
    /\ qt_pc' = QtAt(qt_queue', tokens)
    /\ qt_polled' = {}
    /\ UNCHANGED <<tokens, db, qt_answer>>
    /\ QtUnchanged

\* step 0 of an entry without a tier: _fetch_metadata answers m
QtMeta(m) ==
    /\ qt_pc = "meta"
    /\ NoUrgent
    /\ LET tok == TokenOf(tokens, Head(qt_queue))
       IN  tokens' = PutToken(tokens, [tok EXCEPT !.project_id = m.project_id,
                                                  !.subscription_tier = m.tier])
    /\ db' = SaveMetadata(db, Head(qt_queue), m.project_id, m.tier)
    /\ qt_pc' = "poll"
    /\ UNCHANGED <<qt_queue, qt_polled, qt_answer>>
    /\ QtUnchanged

\* step 0 when _save_metadata_to_db raises
QtMetaSaveFails(m) ==
    /\ qt_pc = "meta"
    /\ NoUrgent
    /\ tokens' = PutToken(tokens,
                          MetadataUnsaved(TokenOf(tokens, Head(qt_queue)), m))
    /\ qt_pc' = "poll"
    /\ UNCHANGED <<db, qt_queue, qt_polled, qt_answer>>
    /\ QtUnchanged

\* the poll of the entry is answered; the loop goes on to the next entry
QtPoll(answer) ==
    /\ qt_pc = "poll"
    /\ NoUrgent
    /\ LET id == Head(qt_queue)
           tok == Polled(TokenOf(tokens, id), answer)
       IN  /\ tokens' = PutToken(tokens, tok)
           /\ db' = IF tok = TokenOf(tokens, id) THEN db
                    ELSE SaveQuota(db, id, tok.average_quota)
           /\ qt_polled' = qt_polled \cup {id}
    /\ qt_answer' = answer
    /\ qt_queue' = Tail(qt_queue)
    /\ qt_pc' = QtAt(qt_queue', tokens')
    /\ QtUnchanged

QuotaTiers == {NoTier, "g1-pro-tier"}
QuotaRows ==
    UNION {{[i \in 1..n |-> Token(Ids[i], FreshExpiry, r[i][1], r[i][2], r[i][3])] :
               r \in [1..n -> {RealProject, NoProject} \X QuotaTiers
                                 \X {NoQuota, 5000}]} :
           n \in 1..2}

InitQuota ==
    /\ \E rows \in QuotaRows : InitPool(rows)
    /\ InitTask
    /\ InitReq
    /\ InitXlat

NextQuota ==
    \/ GStart("g1", "gemini", FALSE, MaxQuotaCalls) /\ Idle
    \/ GtSelect("g1") /\ Idle
    \/ GtExpiry("g1") /\ Idle
    \/ GtProject("g1") /\ Idle
    \/ \E m \in MetadataAnswers : MdDone("g1", m) /\ Idle
    \/ \E m \in MetadataAnswers : MdSaveFails("g1", m) /\ Idle
    \/ GReturn("g1") /\ Idle
    \/ QtTick
    \/ \E m \in MetadataAnswers : QtMeta(m)
    \/ \E m \in MetadataAnswers : QtMetaSaveFails(m)
    \/ \E answer \in PollAnswers : QtPoll(answer)

SpecQuota == InitQuota /\ [][NextQuota]_vars

\* The generators of the two streaming handlers, for every upstream stream
\* of at most MaxLines lines that ends or fails.
InitSse ==
    /\ InitPool(<<>>)
    /\ InitTask
    /\ InitReq
    /\ InitXlat

NextSse ==
    \/ \E protocol \in {"openai", "claude"} : SseStart(protocol)
    \/ \E line \in UpstreamLines : SseLine(line)
    \/ SseEnd
    \/ SseFail

SpecSse == InitSse /\ [][NextSse]_vars

\* The mappers and the schema cleaners as functions: each is applied to
\* every input of the bounded sets.  The functions share no state, so a
\* behaviour holds the applications of one of them.
InitMap ==
    /\ InitPool(<<>>)
    /\ InitTask
    /\ InitReq
    /\ InitXlat

Untouched == map_pc = "idle" /\ cleaned = <<>> /\ claude_pc = "idle"

NextMap ==
    \/ \E msg \in Messages : OpenAIToGemini(msg) /\ Untouched
    \/ FeedBack
    \/ \E resp \in GeminiResponses : GeminiToOpenAI(resp) /\ Untouched
    \/ \E c \in {"openai", "claude"}, s \in Schemas :
           Clean(c, s) /\ Untouched
    \/ CleanAgain
    \/ \E block \in ToolUses : ClaudeToGemini(block) /\ Untouched
    \/ GeminiToClaude

SpecMap == InitMap /\ [][NextMap]_vars

\* ------------------------------------------------- claims: the dispatcher
\* C1, as stated: after a rotate-eligible failure of an attempt on identity
\* X (email), in a pool that held two identities or more from the start of
\* the request, the get_token(force_rotate=True) of the next attempt returns
\* an identity other than X.
C1_AsStated ==
    (/\ pc["req"] = "gt_return"
     /\ attempt > 0
     /\ RotateEligible(last_error)
     /\ account_count >= 2)
    => selected["req"] # email

\* C4, as stated: when get_token raises the failure of a token refresh while
\* the pool holds two identities or more and the loop has attempts left, the
\* handler goes on to the next attempt, with force_rotate=True.
C4_AsStated ==
    [][(/\ pc["req"] = "gt_raised"
        /\ error["req"].kind = "Exception"
        /\ Len(tokens) >= 2
        /\ attempt + 1 < Max(account_count, MinRetries))
       => (pc'["req"] = "gt_select" /\ force_rotate'["req"])]_vars

\* C5, as stated: a streaming request is declared a success (its success
\* usage record is logged, the loop is left) only once the stream call to the
\* upstream was made and answered without an error.
C5_AsStated ==
    (stream /\ outcome = "success") => (n_calls > 0 /\ stream_error = NoError)

C7_ExactlyMaxCalls ==
    (/\ pc["req"] = "done"
     /\ ~stream
     /\ rotations_only
     /\ Len(tokens) = account_count)
    => (/\ outcome = "exhausted"
        /\ n_calls = (IF account_count > MinRetries THEN account_count
                      ELSE MinRetries)
        /\ account_count = 1 => tried_accounts = {tokens[1].account_id})

\* a request exhausted on a pool larger than five
C7_Witness ==
    /\ pc["req"] = "done"
    /\ ~stream
    /\ rotations_only
    /\ Len(tokens) = account_count
    /\ account_count > MinRetries
    /\ n_calls = account_count

\* C8, amended: when the loop runs out of attempts, chat, messages and
\* generateContent answer 429; images answers 429 when the text of the last
\* error contains 429, else 403 when it contains 403, else 502.
C8_ExhaustedStatus ==
    outcome = "exhausted"
    => status = (IF endpoint # "images" THEN 429
                 ELSE IF 429 \in last_error.mentions THEN 429
                 ELSE IF 403 \in last_error.mentions THEN 403 ELSE 502)

\* an images request exhausted on a last error that names neither 429 nor 403
C8_Witness ==
    /\ outcome = "exhausted"
    /\ endpoint = "images"
    /\ last_error = HTTPStatusError(503)
    /\ status = 502

\* C8, as stated: an exhausted loop answers 429 on every endpoint.
C8_AsStated == outcome = "exhausted" => status = 429

\* C13: get_token on an empty pool raises ValueError and leaves the counter,
\* the sticky pair, the pool, the store and the refresh lock as they are,
\* with no token selected; a request that ends while the pool is empty was
\* answered 503, raised by the handler, and made no upstream call.
C13_EmptyPool ==
    [][/\ \A t \in {"req", "g1"} :
              (pc[t] = "gt_select" /\ tokens = <<>>)
              => /\ pc'[t] = "gt_raised"
                 /\ error'[t] = ValueError
                 /\ selected'[t] = NoId
                 /\ UNCHANGED <<tokens, current_index, last_used, db,
                                refresh_lock, waiters>>
       /\ (pc'["req"] = "done" /\ tokens' = <<>>)
          => (status' = 503 /\ outcome' = "raised" /\ n_calls' = 0)]_vars

\* an images request on an empty pool was answered 503
C13_Witness ==
    /\ pc["req"] = "done"
    /\ tokens = <<>>
    /\ endpoint = "images"
    /\ status = 503
    /\ n_calls = 0
    /\ tried_accounts = {}

\* C38, as stated: a request is answered 503 only by the handler that met
\* get_token's error on the empty pool; with an entry in the pool no failure
\* of the upstream call or of the decoding of its answer ends the request
\* with 503.
C38_AsStated ==
    [][(status' = 503 /\ status # 503)
       => (pc["req"] = "gt_raised" /\ tokens = <<>>)]_vars

\* C9, amended: the loop makes at most max(pool_size, 5) attempts, and the
\* identities it made an attempt on are never more than the identities the
\* pool holds at that moment.
C9_AttemptsAndTried ==
    /\ attempt < (IF account_count > MinRetries THEN account_count ELSE MinRetries)
    /\ n_calls <= (IF account_count > MinRetries THEN account_count ELSE MinRetries)
    /\ Cardinality(tried_accounts) <= Len(tokens)

\* a reload added an identity during the request, which then tried it
C9_Witness ==
    /\ pc["req"] = "up_call"
    /\ endpoint = "chat"
    /\ imports > 0
    /\ Len(tokens) > account_count
    /\ Cardinality(tried_accounts) = Len(tokens)

\* C9, as stated: nor are they ever more than pool_size, the value the loop
\* bound was computed from.
C9_AsStated ==
    attempt >= 0 => Cardinality(tried_accounts) <= account_count

\* ------------------------------------------------------ claims: the pool
\* C2, amended: when get_token returns, the expiry of the token it returns is
\* strictly more than 300 s after the time of its expiry check (step 3),
\* provided no refresh response with expires_in of 300 s or less was written
\* to that identity.
C2_ExpiryAfterCheck ==
    \A t \in Callers :
        (pc[t] = "gt_return" /\ selected[t] \notin short_refreshed)
        => Tok(t).expiry_timestamp > check_time[t] + RefreshMargin

\* a call that lost the race for the lock against the scheduler, found the
\* token refreshed, and returns after time went by
C2_Witness ==
    /\ pc["g1"] = "gt_return"
    /\ selected["g1"] \notin short_refreshed
    /\ refreshed["g1"] = 0
    /\ refresh_now["g1"] > check_time["g1"]
    /\ Tok("g1").expiry_timestamp > FreshExpiry

\* C2, as stated: when get_token returns, the expiry of the token it returns
\* is strictly more than 300 s after the current time.
C2_AsStated ==
    \A t \in Callers :
        pc[t] = "gt_return" => Tok(t).expiry_timestamp > now + RefreshMargin

InFlight(id) == {t \in Tasks : pc[t] = "rf_call" /\ selected[t] = id}

\* C22: at any time at most one call of refresh_access_token made by
\* _refresh_token is in flight for an identity, whether the refreshes come
\* from get_token, from refresh_all_expiring_tokens or from both, and also
\* when load_accounts replaces the entry of the pool during the call.
C22_OneRefreshInFlight ==
    \A id \in IdSet : Cardinality(InFlight(id)) <= 1

\* a refresh of get_token is in flight for an identity whose entry
\* load_accounts has replaced, while the scheduler, which found the new entry
\* due, waits for the lock
C22_Witness ==
    /\ pc["g1"] = "rf_call"
    /\ ~attached["g1"]
    /\ pc["sched"] = "rf_wait"
    /\ attached["sched"]
    /\ selected["sched"] = selected["g1"]

\* ----------------------------------------------------- claims: the store
\* C11, as stated: when an account is deleted from the store and
\* load_accounts has run, the pool holds no entry of that account.
C11_AsStated ==
    [][\A id \in IdSet :
          (HasId(db, id) /\ ~HasId(db', id)) => ~HasId(tokens', id)]_vars

\* C12, as stated: the token get_token returns is never one of an account
\* whose refresh token is empty.
C12_AsStated ==
    \A t \in Callers :
        pc[t] = "gt_return" => Tok(t).refresh_token # NoCredential

C3_StickyWithinWindow ==
    [][\A t \in Callers :
          (/\ pc[t] = "gt_select"
           /\ Plain(t)
           /\ tokens # <<>>
           /\ last_used # <<>>
           /\ now - last_used[2] < StickyWindow
           /\ HasId(tokens, last_used[1]))
          => (selected'[t] = last_used[1] /\ last_used' = last_used)]_vars

\* the third call of a run is a sticky hit, half a window after the pair
\* was set by a forced rotation
C3_Witness ==
    /\ pc["g1"] = "gt_expiry"
    /\ how["g1"] = "sticky"
    /\ other_calls = 3
    /\ last_plain # <<>>
    /\ last_plain[1] # selected["g1"]
    /\ now - last_used[2] = TickStep

\* C3, as stated: a get_token call without force_rotate for gemini or claude
\* returns the identity that the last such call returned, when that call was
\* made less than 60 s before and the set of pool entries did not change.
C3_AsStated ==
    \A t \in Callers :
        (/\ pc[t] = "gt_return"
         /\ Plain(t)
         /\ last_plain # <<>>
         /\ check_time[t] - last_plain[2] < StickyWindow)
        => selected[t] = last_plain[1]

\* C10: when a get_token call for gemini or claude selects without a sticky
\* hit (forced or not) and some entry has a score above 0.05, the entry it
\* selects has a score above 0.05, at most two entries score higher, and its
\* score is at least 0.9 times the highest score.
C10_WeightedPick ==
    LET ScoreOf(id) == TokenOf(tokens, id).average_quota
        ScoredIds == {id \in PoolIds(tokens) : ScoreOf(id) > QuotaFloor}
    IN  \A t \in Callers :
            (pc[t] = "gt_expiry" /\ how[t] = "weighted" /\ ScoredIds # {})
            => /\ selected[t] \in ScoredIds
               /\ Cardinality({id \in ScoredIds :
                                  ScoreOf(id) > ScoreOf(selected[t])}) <= 2
               /\ \A id \in ScoredIds :
                      10 * ScoreOf(selected[t]) >= 9 * ScoreOf(id)

\* a forced call picks the second of the band, in a pool of four where a
\* third entry scores exactly 0.9 times the top and a fourth has no score
C10_Witness ==
    LET ScoreOf(id) == TokenOf(tokens, id).average_quota
        ScoredIds == {id \in PoolIds(tokens) : ScoreOf(id) > QuotaFloor}
    IN  /\ pc["g1"] = "gt_expiry"
        /\ how["g1"] = "weighted"
        /\ force_rotate["g1"]
        /\ Len(tokens) = 4
        /\ Cardinality(ScoredIds) = 3
        /\ ScoreOf(selected["g1"]) = 7600
        /\ \E id \in ScoredIds : ScoreOf(id) = 8000
        /\ \E id \in ScoredIds : ScoreOf(id) = 7200

\* the up to three highest-scoring entries of S whose score is at least 0.9
\* times the top score, as the sentence counts them
StatedBand(toks) ==
    LET sorted == SortDesc(TokensWithQuota(toks))
        InBand(x) == 10 * x.average_quota >= 9 * sorted[1].average_quota
    IN  SelectSeq(FirstThree(sorted), InBand)

\* C28: a selection for gemini or claude that is no sticky hit, made when at
\* least two of the up to three highest-scoring entries score at least 0.9
\* times the top, takes the entry of those at the counter's position and
\* advances the counter, so that successive selections go round them.
C28_AsStated ==
    [][\A t \in Callers :
          (/\ pc[t] = "gt_select"
           /\ quota_group[t] # "image_gen"
           /\ tokens # <<>>
           /\ ~StickyHit(tokens, last_used, now, quota_group[t], force_rotate[t])
           /\ Len(StatedBand(tokens)) >= 2)
          => LET band == StatedBand(tokens)
             IN  /\ selected'[t] = band[(current_index % Len(band)) + 1].account_id
                 /\ current_index' = current_index + 1]_vars

\* C29: a get_token call for image_gen, forced or not, selects what the
\* image rule selects whatever the sticky pair is, is never a sticky hit, and
\* leaves the sticky pair as it was.
C29_ImageGenIgnoresSticky ==
    [][\A t \in Callers :
          (pc[t] = "gt_select" /\ quota_group[t] = "image_gen" /\ tokens # <<>>)
          => /\ last_used' = last_used
             /\ how'[t] # "sticky"
             /\ selected'[t] =
                    ImageSelect(tokens, current_index, force_rotate[t]).id]_vars

\* an unforced image_gen call inside the window of a sticky pair takes
\* another identity than the one of the pair
C29_Witness ==
    /\ pc["g1"] = "gt_expiry"
    /\ quota_group["g1"] = "image_gen"
    /\ ~force_rotate["g1"]
    /\ last_used # <<>>
    /\ check_time["g1"] - last_used[2] < StickyWindow
    /\ HasId(tokens, last_used[1])
    /\ selected["g1"] # last_used[1]

\* C39: a sticky hit of get_token leaves the sticky pair and the round-robin
\* counter as they were: the window is not extended by the reuse.
C39_StickyHitWritesNothing ==
    [][\A t \in Callers :
          (/\ pc[t] = "gt_select"
           /\ tokens # <<>>
           /\ StickyHit(tokens, last_used, now, quota_group[t], force_rotate[t]))
          => /\ last_used' = last_used
             /\ current_index' = current_index
             /\ selected'[t] = last_used[1]]_vars

\* a sticky hit half a window after the pair was set, on a counter that has
\* moved
C39_Witness ==
    /\ pc["g1"] = "gt_expiry"
    /\ how["g1"] = "sticky"
    /\ check_time["g1"] = 0
    /\ now = TickStep
    /\ last_used = <<selected["g1"], 0>>
    /\ current_index > 0

\* ---------------------------------------------------- claims: the streams
\* the events of the frames, in order
Events(fs) == [i \in 1..Len(fs) |-> fs[i].event]

\* n events content_block_delta
Deltas(n) == [i \in 1..n |-> "content_block_delta"]

\* the events that close an Anthropic stream at sse_pc
ClaudeClosing ==
    IF sse_pc = "ended"
    THEN <<"content_block_stop", "message_delta", "message_stop">>
    ELSE IF sse_pc = "failed" THEN <<"error">> ELSE <<>>

\* C14: the events of an Anthropic streaming response are message_start,
\* content_block_start, zero or more content_block_delta, and then, when the
\* upstream stream ended, content_block_stop, message_delta, message_stop in
\* this order, or, when the upstream failed, exactly one error event; while
\* the stream is open they are a prefix of this without a closing event, and
\* nothing is emitted after the closing events.
C14_ClaudeEventSequence ==
    (sse_protocol = "claude" /\ sse_pc # "idle")
    => LET n == Len(frames) - 2 - Len(ClaudeClosing)
       IN /\ n >= 0
          /\ Events(frames)
               = <<"message_start", "content_block_start">>
                 \o Deltas(n) \o ClaudeClosing

\* an Anthropic stream on which the upstream failed after a text went out,
\* closed with the error event
C14_Witness ==
    /\ sse_protocol = "claude"
    /\ sse_pc = "failed"
    /\ sse_lines >= 1
    /\ Len(frames) >= 4
    /\ frames[3].event = "content_block_delta"
    /\ frames[Len(frames)].event = "error"

\* the number of frames of fs that are the sentinel data: [DONE]
RECURSIVE DoneCount(_)
DoneCount(fs) ==
    IF fs = <<>> THEN 0
    ELSE (IF Head(fs).event = "[DONE]" THEN 1 ELSE 0) + DoneCount(Tail(fs))

\* C15, as stated: an OpenAI streaming response that is over, because the
\* upstream stream ended or because it failed, holds exactly one frame
\* data: [DONE], and that frame is its last.
C15_AsStated ==
    (sse_protocol = "openai" /\ sse_pc \in {"ended", "failed"})
    => /\ DoneCount(frames) = 1
       /\ frames[Len(frames)].event = "[DONE]"

\* the texts of the frames of one event, joined in order
RECURSIVE EventText(_, _)
EventText(fs, event) ==
    IF fs = <<>> THEN NoText
    ELSE (IF Head(fs).event = event THEN Head(fs).text ELSE NoText)
         \o EventText(Tail(fs), event)

\* the texts of the parts that have a text and are no thought, joined in order
RECURSIVE NonThoughtText(_)
NonThoughtText(parts) ==
    IF parts = <<>> THEN NoText
    ELSE (IF "text" \in Head(parts).keys /\ "thought" \notin Head(parts).keys
          THEN Head(parts).text ELSE NoText)
         \o NonThoughtText(Tail(parts))

\* the non-thought texts of the chunks among the lines, joined in order
RECURSIVE UpstreamText(_)
UpstreamText(lines) ==
    IF lines = <<>> THEN NoText
    ELSE (IF Head(lines).kind = "chunk"
          THEN NonThoughtText(Head(lines).parts) ELSE NoText)
         \o UpstreamText(Tail(lines))

\* C35, as stated: in an Anthropic streaming response the texts of all
\* content_block_delta events, joined, are the non-thought text parts of all
\* upstream chunks received so far, joined in order, also when a chunk holds
\* more than one text part.
C35_AsStated ==
    (sse_protocol = "claude" /\ sse_pc \in {"streaming", "ended"})
    => EventText(frames, "content_block_delta") = UpstreamText(sse_seen)

\* ------------------------------------------------ claims: the translators
\* the finish_reason that C18 states for an upstream response
StatedFinishReason(response) ==
    IF response.candidates = <<>> THEN "stop"
    ELSE IF response.candidates[1].finishReason = "MAX_TOKENS" THEN "length"
    ELSE IF \E i \in 1..Len(response.candidates[1].parts) :
                "functionCall" \in response.candidates[1].parts[i].keys
         THEN "tool_calls"
         ELSE "stop"

\* C18, as stated: the finish_reason of the OpenAI response is length when
\* the upstream finishReason is MAX_TOKENS, otherwise tool_calls when
\* candidates[0] holds a functionCall part, whatever the finishReason, and
\* stop in every other case.
C18_AsStated ==
    map_pc = "response_mapped"
    => openai_response.finish_reason = StatedFinishReason(gemini_response)

\* C19: for both cleaners and every schema, nested properties and items
\* included, cleaning the cleaned schema yields the cleaned schema again.
C19_CleanIdempotent ==
    Len(cleaned) = 2 => cleaned[2] = cleaned[1]

\* a schema with a schema inside that the cleaner changed, cleaned twice
C19_Witness ==
    /\ Len(cleaned) = 2
    /\ cleaned[1] # schema
    /\ \E e \in schema.entries :
           /\ e.k \in {"properties", "items"}
           /\ e.v.tag = "dict"
           /\ e.v \notin {f.v : f \in cleaned[1].entries}

\* the names of the properties of a schema (none when it has no dict of
\* properties)
PropertyNamesOf(s) ==
    UNION {{p.k : p \in e.v.entries} :
              e \in {f \in s.entries : f.k = "properties" /\ f.v.tag = "dict"}}

\* the cleaner that did not run
OtherCleaner == IF cleaner = "openai" THEN "claude" ELSE "openai"

\* C36, as stated: on every JSON schema the cleaner of the Anthropic path and
\* the cleaner of the OpenAI path give the same result, and the result keeps
\* every property name the schema has under properties.
C36_AsStated ==
    Len(cleaned) >= 1
    => /\ cleaned[1] = CleanWith(OtherCleaner, schema)
       /\ PropertyNamesOf(cleaned[1]) = PropertyNamesOf(schema)

\* the round trip of C20 was made with an assistant message whose content
\* is a text and that has no tool calls
RoundTripOfText ==
    /\ map_pc = "response_mapped"
    /\ openai_message.role = "assistant"
    /\ ~openai_message.content.is_none
    /\ openai_message.tool_calls = 0

\* C20, as stated: the content of the message that comes back from the
\* round trip of an assistant message with the text t and no tool calls is
\* t, for every t, the empty text included.
C20_AsStated ==
    RoundTripOfText => openai_response.content = openai_message.content

\* C20, amended: the content that comes back is t for every text t that is
\* not empty; for the empty text the message yields no parts and the
\* content that comes back is None.
C20_RoundTripNonEmpty ==
    RoundTripOfText
    => /\ openai_message.content.text # NoText
          => openai_response.content = openai_message.content
       /\ openai_message.content.text = NoText
          => /\ gemini_contents = <<>>
             /\ openai_response.content = None

\* the round trip of a text of two characters
C20_Witness ==
    /\ RoundTripOfText
    /\ Len(openai_message.content.text) = 2
    /\ openai_response.content = openai_message.content

\* the round trip of C21 was made with a tool_use block that has a name and
\* an input, the input a JSON object
RoundTripOfToolUse ==
    /\ claude_pc = "response_mapped"
    /\ {"name", "input"} \subseteq tool_use.keys
    /\ tool_use.input.tag = "dict"

\* C21: the block that comes back from transform_claude_to_gemini followed
\* by transform_gemini_to_claude for a tool_use block with a name and an
\* input is a tool_use block that has the same name and the same input.
C21_ToolUseRoundTrip ==
    RoundTripOfToolUse
    => /\ {"type", "name", "input"} \subseteq tool_use_back.keys
       /\ tool_use_back.name = tool_use.name
       /\ tool_use_back.input = tool_use.input

\* the round trip of a call whose input holds an object, a list and nulls
C21_Witness ==
    /\ RoundTripOfToolUse
    /\ tool_use.name = "get_weather"
    /\ \E e \in tool_use.input.entries : e.v.tag = "dict"
    /\ \E e \in tool_use.input.entries : e.v.tag = "list"
    /\ tool_use_back.input = tool_use.input
    /\ tool_use_back.id # tool_use.id


\* ------------------------------------------------ claims: the refreshes
\* C23: when several tasks find the same identity due at the same time and
\* the first refresh succeeds, exactly one refresh call is made: a task that
\* entered _refresh_token and was overtaken by the successful refresh of
\* another task never makes the call itself.
C23_AsStated == \A t \in Tasks : pc[t] = "rf_call" => t \notin overtaken

\* the entry of the pool and the row of the database of identity id
PoolEntry(id) == TokenOf(tokens, id)
StoreRow(id) == TokenOf(db, id)

\* C24: when a refresh of an identity by get_token has succeeded, the entry
\* the pool holds for the identity has the new access token and the new
\* expiry, and both are those of the row of the database.
C24_AsStated ==
    \A t \in Callers :
        pc[t] = "gt_project" /\ refreshed[t] > 0 =>
            LET id == selected[t]
            IN  /\ PoolEntry(id).access_token = RefreshedAccessToken
                /\ PoolEntry(id).expiry_timestamp = refresh_now[t] + refreshed[t]
                /\ PoolEntry(id).access_token = StoreRow(id).access_token
                /\ PoolEntry(id).expiry_timestamp = StoreRow(id).expiry_timestamp

C30_AsStated ==
    [][\A t \in Tasks :
          pc[t] = "rf_call" =>
              Tok(t)'.expiry_timestamp >= Tok(t).expiry_timestamp]_vars

\* C30, amended: no refresh whose response carries an expires_in of at least
\* the margin of 300 s makes the expiry_timestamp of its token smaller.
C30_NeverDecreasesFromMargin ==
    [][\A t \in Tasks :
          pc[t] = "rf_call" /\ refreshed'[t] >= RefreshMargin =>
              Tok(t)'.expiry_timestamp >= Tok(t).expiry_timestamp]_vars

C30_Witness ==
    /\ pc["g1"] = "gt_project"
    /\ refreshed["g1"] = RefreshMargin
    /\ Tok("g1").expiry_timestamp = refresh_now["g1"] + RefreshMargin
    /\ refresh_now["g1"] > 0


\* ------------------------------------------------ claims: the rotation
\* a selection that takes the entry at the counter among all the entries of
\* the pool and advances the counter: for gemini and claude, for a forced
\* image_gen call, and for image_gen when no entry is PRO or ULTRA
RoundRobin ==
    /\ current_index' # current_index
    /\ \/ quota_group'["g1"] # "image_gen"
       \/ force_rotate'["g1"]
       \/ ProTokens(tokens) = <<>>

\* C27: in a pool of two or more identities without scores, when round-robin
\* selections over the pool are made again and again, every identity of the
\* pool is eventually selected, whatever the order of gemini, claude and
\* image_gen calls, forced and unforced, between them.
C27_AsStated ==
    \A id \in IdSet :
        []<><<RoundRobin>>_vars => <>(~HasId(tokens, id) \/ picked = id)


\* ------------------------------------------------ claims: the pool lock
\* C26: every write of the pool map, of the round-robin counter and of the
\* sticky pair, and every read of the counter and of the pair by a
\* selection, is made while the thread holds the pool lock.
C26_AsStated == \A a \in accesses : a.locked


\* a step of the scheduler: a due entry is tried, an answered refresh leaves
\* the rest of the snapshot, the run ends on the empty snapshot
SchedulerGoesOn ==
    LET head == Head(sc_queue)
        tok == IF head[2] THEN TokenOf(tokens, head[1]) ELSE held[head[1]]
        IsDue == /\ pc["sched"] = "sc_loop"
                 /\ sc_queue # <<>>
                 /\ NeedsRefresh(tok, check_time["sched"])
        Tried == pc'["sched"] \in {"rf_check", "rf_wait"}
        Answered == pc["sched"] = "rf_call" /\ pc'["sched"] # "rf_call"
        GoesOn == pc'["sched"] = "sc_loop" /\ sc_queue' = sc_queue
        Ends == pc["sched"] # "idle" /\ pc'["sched"] = "idle"
    IN  (IsDue => Tried) /\ (Answered => GoesOn) /\ (Ends => sc_queue = <<>>)

\* C32: in a run of refresh_all_expiring_tokens every entry of the snapshot
\* that is within 300 s of expiry at the time of the tick enters
\* _refresh_token, a failed refresh leaves the rest of the snapshot to be gone
\* through, the run ends only when the snapshot is used up, and every run
\* ends, so that the scheduler comes to its next tick.
C32_EveryDueEntryTried ==
    /\ [][SchedulerGoesOn]_vars
    /\ (pc["sched"] # "idle") ~> (pc["sched"] = "idle")

\* the refresh of the second entry is in flight in a run in which the
\* refresh of the first entry failed
C32_Witness ==
    /\ pc["sched"] = "rf_call"
    /\ selected["sched"] = Ids[2]
    /\ sc_queue = <<>>
    /\ pc["g1"] = "idle"
    /\ other_calls = 0
    /\ TokenOf(tokens, Ids[1]).access_token = AccessToken
    /\ NeedsRefresh(TokenOf(tokens, Ids[1]), check_time["sched"])

\* C34: a get_token call whose selected token is more than 300 s from expiry
\* and has a project id goes from its expiry check to its return without
\* entering _refresh_token, so without waiting for the refresh lock, whoever
\* holds it.
C34_FreshTokenDoesNotWait ==
    [][\A t \in Callers :
          /\ (/\ pc[t] = "gt_expiry"
              /\ now < Tok(t).expiry_timestamp - RefreshMargin)
             => pc'[t] = "gt_project"
          /\ (/\ pc[t] = "gt_project"
              /\ Tok(t).project_id # NoProject)
             => pc'[t] = "gt_return"]_vars

\* get_token returns a fresh identity while the scheduler's refresh of
\* another identity is in flight and holds the lock
C34_Witness ==
    /\ pc["g1"] = "gt_return"
    /\ refreshed["g1"] = 0
    /\ now < Tok("g1").expiry_timestamp - RefreshMargin
    /\ pc["sched"] = "rf_call"
    /\ refresh_lock = "sched"
    /\ selected["sched"] # selected["g1"]

\* ------------------------------------------------ claims: the metadata
\* C31: the metadata step of get_token never raises, whatever the fetch
\* answers and also when the save fails, and the project id get_token
\* returns is never absent or empty: it is the fallback id when the entry
\* has none.
C31_AlwaysAProject ==
    [][\A t \in Callers :
          /\ pc[t] = "md_call" => pc'[t] \in {"md_call", "gt_return"}
          /\ pc'[t] = "gt_return" =>
                 ReturnedProject(t)' \notin {NoProject, NoCredential}]_vars

\* get_token is about to return for an entry whose fetch answered without a
\* project
C31_Witness ==
    /\ pc["g1"] = "gt_return"
    /\ Tok("g1").project_id = NoProject
    /\ TokenOf(db, selected["g1"]).project_id = NoProject
    /\ ReturnedProject("g1") = FallbackProject

\* the answers of a poll that report no score
Scoreless == {Non200, PollRaises, Reports(<<>>)}

\* C33: a poll of update_quotas that is answered with a status other than
\* 200, that raises, or that reports remainingFraction for none of the three
\* models leaves the score of its entry as it was, in memory and in the
\* store, and the loop goes on: when update_quotas ends, every entry of the
\* pool was polled.
C33_ScoreKept ==
    [][/\ (qt_pc = "poll" /\ qt_queue' # qt_queue /\ qt_answer' \in Scoreless)
          => LET id == Head(qt_queue)
             IN  /\ TokenOf(tokens', id).average_quota =
                        TokenOf(tokens, id).average_quota
                 /\ TokenOf(db', id).average_quota = TokenOf(db, id).average_quota
                 /\ id \in qt_polled'
                 /\ qt_queue' = Tail(qt_queue)
       /\ (qt_pc # "idle" /\ qt_pc' = "idle") => qt_polled' = PoolIds(tokens)]_vars

\* update_quotas has ended: the first entry got the score 0.8, the poll of
\* the second answered 503 and its score is the one it had
C33_Witness ==
    /\ qt_pc = "idle"
    /\ qt_answer = Non200
    /\ Len(tokens) = 2
    /\ qt_polled = PoolIds(tokens)
    /\ tokens[1].average_quota = 8000
    /\ db[1].average_quota = 8000
    /\ tokens[2].average_quota = 5000
    /\ db[2].average_quota = 5000

\* C37: an entry that holds the project id upstream gave keeps it, in memory
\* and in the store, through every step of get_token and of update_quotas.
C37_AsStated ==
    [][\A i \in 1..Len(tokens) :
          /\ tokens[i].project_id = RealProject
                 => tokens'[i].project_id = RealProject
          /\ db[i].project_id = RealProject
                 => db'[i].project_id = RealProject]_vars

=============================================================================
